---- MODULE Spec2Model ----
(***************************************************************************)
(* Model of price_based_charging.py: the slot scheduler update_charge and  *)
(* the per-event planning loop of main() that drives it.                   *)
(*                                                                         *)
(* Units.  Times are seconds relative to "now" of the cycle (now = 0);     *)
(* distances are metres; prices are integer price units (the code sorts    *)
(* floats, only their order matters); energy is kWh as an integer where    *)
(* the code's value is integral, and mWh inside the one formula that has   *)
(* fractions.  The tri-state 'charge' of a slot is the string "None",      *)
(* "True" or "False" for Python's None (UNDECIDED), True (RESERVED) and    *)
(* False (BLOCKED).                                                        *)
(***************************************************************************)
EXTENDS Integers, Sequences, FiniteSets, TLC

VARIABLES
  prices,       \* main: the cycle's slot list (list of dicts)
  charge_left,  \* main: kWh of the battery not yet slotted to an event
  pc,           \* position of main inside the planning part of a cycle
  nevents,      \* number of events the for loop of line 869 has taken
  last_start,   \* start time of the event taken last (events come by startTime)
  last_depart,  \* event_depart of the event taken last
  warning,      \* the event taken last had the budget warning logged
  last_charge,  \* event_charge of the event taken last, in kWh
  call,         \* arguments of the latest update_charge call
  before,       \* the slot list as it was handed to the latest update_charge
  mid,          \* the slot list of that call after its first marking loop
  car_away,             \* main: the geofence flag carried from cycle to cycle
  charge_needed,        \* main: the limit (percent) the events ask for
  stored_battery_mode,  \* the inverter registers read when the process started
  inverter_mode,        \* the inverter: <<storage_control_mode, rc_cmd_mode>>
  google,               \* configuration: calendar access is set up
  inverter_host,        \* configuration: an inverter is set up
  cardata,              \* the vehicle snapshot the cycle read from the database
  level,                \* prices[0]['level'] of the cycle
  events,               \* the events get_calendar_events returned this cycle
  outcome,              \* how the cycle ended: the gate or the policy branch
  status,               \* the vehicle status a charging branch read
  cmds,                 \* the vehicle commands the cycle issued, in order
  prev_needed,          \* charge_needed as the cycle found it
  prev_away,            \* car_away as the cycle found it
  mode_before_idle,     \* the inverter mode found when it was last set to idle
  reads,                \* reads the confirmation poll of the cycle has made
  reading,              \* charger_actual_current of the latest of them
  startup,              \* what the process found when it started
  commanded,            \* the limit of the latest set_charge_limit, 0 for none
  written,              \* what became of the latest inverter call of the cycle
  todo,                 \* the calls the branch of the cycle has still to make
  hour,                 \* line 923: the slot hour that contains now
  step                  \* where the running call stands: its next write,
                        \* its read-back, or hung in a request

\* the state of the planning loop, and the state of the polling loop
planvars ==
  <<charge_left, nevents, last_start, last_depart, warning, last_charge, call,
    before, mid>>
cyclevars ==
  <<car_away, charge_needed, stored_battery_mode, inverter_mode, google,
    inverter_host, cardata, level, events, outcome, status, cmds,
    prev_needed, prev_away, mode_before_idle, reads, reading, startup,
    commanded, written, todo, hour, step>>

vars == <<prices, pc, planvars, cyclevars>>

-----------------------------------------------------------------------------
(* Bounds of the model *)

\* number of hourly slots get_electricity_prices returns
NumSlots == 5
\* number of events of one cycle (the calendar query caps it at max_results)
MaxEvents == 2

\* prices per kWh a slot can have
PriceValues == {5, 8}
\* battery levels (percent) read at the start of the cycle
BatteryLevels == {18, 30}
\* event start times (seconds from now), event lengths, travel times, distances
Starts == {0, 1800, 5400, 9000, 14400}
Lengths == {0, 3600, 14400}
Times == {1800, 9000}
Distances == {0, 44000}

-----------------------------------------------------------------------------
(* Program constants *)

BATTERY_CAPACITY == 100
CHARGE_RETURNING == 10
CHARGE_PHASES == 3
CHARGE_AMPS_MAX == 13
\* CHARGE_VOLTAGE = 0.230 kV, in volt
CHARGE_VOLTAGE_V == 230
\* KWH_PER_KILOMETER = 0.250 kWh per km, which is 250 mWh per metre
MWH_PER_METER == 250
\* the fixed 4 kWh per event for warming up
WARMUP_KWH == 4
SECONDS_PER_HOUR == 3600

\* the charge limits of the policy (percent)
CHARGE_MINIMUM == 32
CHARGE_CHEAP == 49
CHARGE_DEFAULT == 50
CHARGE_VERY_CHEAP == 98
\* storage_control_mode 4 is Remote Control, rc_cmd_mode 0 is idle
REMOTE_CONTROL_MODE == 4
RC_CMD_IDLE == 0

\* CHARGE_POWER in watt (kW * 1000)
CHARGE_POWER_W == CHARGE_AMPS_MAX * CHARGE_PHASES * CHARGE_VOLTAGE_V

-----------------------------------------------------------------------------
(* Python helpers *)

Min(a, b) == IF a <= b THEN a ELSE b
Max(a, b) == IF a >= b THEN a ELSE b

\* math.ceil(a / b) for b > 0
CeilDiv(a, b) == -((-a) \div b)
\* math.floor(a / b) for b > 0
FloorDiv(a, b) == a \div b

\* a slice bound as Python normalises it: negative counts from the end,
\* then clamped into 0..len
SliceBound(i, len) == IF i < 0 THEN Max(i + len, 0) ELSE Min(i, len)

\* s[lo:hi]
Slice(s, lo, hi) ==
  LET l == SliceBound(lo, Len(s))
      h == SliceBound(hi, Len(s))
  IN IF h <= l THEN <<>> ELSE SubSeq(s, l + 1, h)

\* lexicographic <= on key tuples of equal length (Python tuple comparison)
RECURSIVE KeyLe(_, _)
KeyLe(k1, k2) ==
  IF k1 = <<>> THEN TRUE
  ELSE IF Head(k1) < Head(k2) THEN TRUE
  ELSE IF Head(k1) > Head(k2) THEN FALSE
  ELSE KeyLe(Tail(k1), Tail(k2))

\* sorted(s, key=...): stable, ascending; Key is a function from the
\* elements of s to key tuples
RECURSIVE InsertByKey(_, _, _)
InsertByKey(s, x, Key) ==
  IF s = <<>> THEN <<x>>
  ELSE IF KeyLe(Key[s[Len(s)]], Key[x]) THEN Append(s, x)
  ELSE Append(InsertByKey(SubSeq(s, 1, Len(s) - 1), x, Key), s[Len(s)])

RECURSIVE SortedByKey(_, _)
SortedByKey(s, Key) ==
  IF s = <<>> THEN <<>>
  ELSE InsertByKey(SortedByKey(SubSeq(s, 1, Len(s) - 1), Key), s[Len(s)], Key)

Range(s) == {s[i] : i \in 1..Len(s)}

-----------------------------------------------------------------------------
(* get_electricity_prices: the fresh slot list of a cycle *)

\* one dict of the list: hour h (0 is the current hour), charge None
\* (faulty variant: the slot comes with a mark)
FreshSlotReserved(h, p) == [datetime |-> h, price |-> p, charge |-> "True"]
FreshSlot(h, p) == [datetime |-> h, price |-> p, charge |-> "None"]

\* the rows come ORDER BY datetime_from ASC: the hours ascend from the
\* current hour on
FreshPrices(pv) == [i \in 1..Len(pv) |-> FreshSlot(i - 1, pv[i])]

PriceVectors == [1..NumSlots -> PriceValues]

-----------------------------------------------------------------------------
(* update_charge *)

\* hours_budget = max(1, hours_budget)
\* (faulty variant: the budget is taken as given)
BudgetClampNone(hours_budget) == hours_budget
BudgetClamp(hours_budget) == Max(1, hours_budget)

\* newprices = [i for i in prices if i['charge'] == None]
IsUndecided(d) == d.charge = "None"
NewPrices(ps) == SelectSeq(ps, IsUndecided)

\* sorted(..., key=lambda d: d['datetime'])
DatetimeKey(d) == <<d.datetime>>
OrderedByDatetime(ps) == SortedByKey(ps, [d \in Range(ps) |-> DatetimeKey(d)])

\* cutprices = orderednewprices[:min(len(orderednewprices), int(hours_budget))]
\* (faulty variant: the hour of departure is taken into the window)
CutToBudgetPlusOne(ordered, budget) == Slice(ordered, 0, Min(Len(ordered), budget + 1))
CutToBudget(ordered, budget) == Slice(ordered, 0, Min(Len(ordered), budget))

\* sorted(cutprices, key=lambda d: (d['price'], d['datetime']))
\* (faulty variants: ties go to the later hour; the dearest hour comes first)
PriceKeyLatestFirst(d) == <<d.price, -d.datetime>>
PriceKeyDearestFirst(d) == <<-d.price, d.datetime>>
PriceKey(d) == <<d.price, d.datetime>>
OrderedByPrice(ps) == SortedByKey(ps, [d \in Range(ps) |-> PriceKey(d)])

\* cutorderedcutprices = orderedcutprices[:min(len(orderedcutprices), int(hours_needed))]
\* (faulty variant: one hour too many)
CutToNeededPlusOne(ordered, hours_needed) ==
  Slice(ordered, 0, Min(Len(ordered), hours_needed + 1))
CutToNeeded(ordered, hours_needed) ==
  Slice(ordered, 0, Min(Len(ordered), hours_needed))

\* the slots the first half of update_charge selects (lines 167-186)
SelectedSlots(ps, hours_needed, budget) ==
  CutToNeeded(
    OrderedByPrice(CutToBudget(OrderedByDatetime(NewPrices(ps)), budget)),
    hours_needed)

\* for price in prices: for selected_price in ...: matching datetime -> True
MarkCharge(ps, selected) ==
  [i \in 1..Len(ps) |->
     IF \E j \in 1..Len(selected) : ps[i].datetime = selected[j].datetime
     THEN [ps[i] EXCEPT !.charge = "True"]
     ELSE ps[i]]

\* cutprices = orderedprices[min(len, budget+1):min(len, budget+duration+1)]
\* (faulty variant: the away window starts at index budget)
AwaySlotsFromBudget(ps, budget, hours_duration) ==
  LET ordered == OrderedByDatetime(ps)
  IN Slice(ordered, Min(Len(ordered), budget),
                    Min(Len(ordered), budget + hours_duration + 1))
AwaySlots(ps, budget, hours_duration) ==
  LET ordered == OrderedByDatetime(ps)
  IN Slice(ordered, Min(Len(ordered), budget + 1),
                    Min(Len(ordered), budget + hours_duration + 1))

\* for price in prices: for selected_price in cutprices:
\*   matching datetime and price['charge'] != True -> False
\* (faulty variant: without the test for True)
MarkNoChargeAlways(ps, away) ==
  [i \in 1..Len(ps) |->
     IF \E j \in 1..Len(away) : ps[i].datetime = away[j].datetime
     THEN [ps[i] EXCEPT !.charge = "False"]
     ELSE ps[i]]
MarkNoCharge(ps, away) ==
  [i \in 1..Len(ps) |->
     IF /\ \E j \in 1..Len(away) : ps[i].datetime = away[j].datetime
        /\ ps[i].charge # "True"
     THEN [ps[i] EXCEPT !.charge = "False"]
     ELSE ps[i]]

\* the list after the first marking loop (line 195)
AfterReserve(ps, hours_needed, hours_budget) ==
  MarkCharge(ps, SelectedSlots(ps, hours_needed, BudgetClamp(hours_budget)))

\* the list update_charge returns
update_charge(ps, hours_needed, hours_budget, hours_duration) ==
  LET marked == AfterReserve(ps, hours_needed, hours_budget)
  IN MarkNoCharge(marked, AwaySlots(marked, BudgetClamp(hours_budget), hours_duration))

\* mark_price_time (lines 218-233): the slot of the given hour gets the mark
\* True, False or, for any other charge, None, whatever its mark was. The
\* function is defined but called nowhere: update_charge and the sweep of
\* main mark the slots themselves, so no step of the loop applies it
mark_price_time(ps, datetime, charge) ==
  [i \in 1..Len(ps) |->
     IF ps[i].datetime = datetime
     THEN [ps[i] EXCEPT !.charge =
             IF charge = "True" THEN "True"
             ELSE IF charge = "False" THEN "False"
             ELSE "None"]
     ELSE ps[i]]

-----------------------------------------------------------------------------
(* main: the planning loop over the events of a cycle *)

\* an event as get_calendar_events returns it: start and end of the
\* appointment, travel time and distance from get_directions
Events ==
  {[start |-> s, end |-> s + l, time |-> t, distance |-> d] :
     s \in Starts, l \in Lengths, t \in Times, d \in Distances}

\* charge_left = (battery_level - CHARGE_RETURNING) * BATTERY_CAPACITY / 100
InitialChargeLeft(battery_level) ==
  ((battery_level - CHARGE_RETURNING) * BATTERY_CAPACITY) \div 100

event_depart(e) == e.start - e.time
event_home(e) == e.end + e.time
event_hours_duration(e) == CeilDiv(event_home(e) - event_depart(e), SECONDS_PER_HOUR)
event_hours_budget(e) == FloorDiv(event_depart(e), SECONDS_PER_HOUR)

\* event_charge_needed = (4 + distance/1000 * KWH_PER_KILOMETER) * 2, in mWh
event_charge_needed_mWh(e) == (WARMUP_KWH * 1000000 + e.distance * MWH_PER_METER) * 2
\* event_charge = math.ceil(min(event_charge_needed, BATTERY_CAPACITY)), in kWh
event_charge(e) ==
  CeilDiv(Min(event_charge_needed_mWh(e), BATTERY_CAPACITY * 1000000), 1000000)
\* event_hours_needed = math.ceil(max(event_charge - charge_left, 0) / CHARGE_POWER)
event_hours_needed(e, left) ==
  CeilDiv(Max(event_charge(e) - left, 0) * 1000, CHARGE_POWER_W)

\* the sweep of lines 902-911: until the first False, every None becomes False
RECURSIVE FirstBlocked(_, _)
FirstBlocked(ps, i) ==
  IF i > Len(ps) THEN Len(ps) + 1
  ELSE IF ps[i].charge = "False" THEN i
  ELSE FirstBlocked(ps, i + 1)

\* (faulty variants: the sweep does not stop at the first closed slot; the
\* sweep closes the reserved slots too)
MarkFullWholeList(ps) ==
  [i \in 1..Len(ps) |->
     IF ps[i].charge = "None" THEN [ps[i] EXCEPT !.charge = "False"] ELSE ps[i]]
MarkFullAlsoReserved(ps) ==
  LET stop == FirstBlocked(ps, 1)
  IN [i \in 1..Len(ps) |->
        IF i < stop THEN [ps[i] EXCEPT !.charge = "False"] ELSE ps[i]]
MarkFull(ps) ==
  LET stop == FirstBlocked(ps, 1)
  IN [i \in 1..Len(ps) |->
        IF i < stop /\ ps[i].charge = "None"
        THEN [ps[i] EXCEPT !.charge = "False"]
        ELSE ps[i]]

\* the snapshot variable before the first database read of a cycle
NoCardata ==
  [battery_level |-> 0, battery_limit |-> 0, charge_rate |-> 0,
   at_home |-> TRUE, charge_port |-> "Engaged"]

\* the default of stored_battery_mode
DefaultBatteryMode == <<1, 0>>

\* line 565: get_vehicle_data_from_tessie returned None, or no read was made
NoReading == -1

\* what main finds when it starts: the VIN in the configuration (line 684),
\* the inverter readable (lines 708-714), the database opened (lines
\* 722-723), the car in the Tessie account and in the database (line 732)
StartupInputs ==
  [vin : BOOLEAN, inverter_ok : BOOLEAN, db_ok : BOOLEAN,
   in_tessie : BOOLEAN, in_store : BOOLEAN]
\* everything is there
StartupFound ==
  [vin |-> TRUE, inverter_ok |-> TRUE, db_ok |-> TRUE,
   in_tessie |-> TRUE, in_store |-> TRUE]

\* main before its first cycle: car_away False, charge_needed CHARGE_MINIMUM,
\* nothing read and nothing commanded yet
CycleAtRest ==
  /\ car_away = FALSE
  /\ charge_needed = CHARGE_MINIMUM
  /\ stored_battery_mode = DefaultBatteryMode
  /\ inverter_mode = DefaultBatteryMode
  /\ google = TRUE
  /\ inverter_host = FALSE
  /\ cardata = NoCardata
  /\ level = ""
  /\ events = <<>>
  /\ outcome = "none"
  /\ status = ""
  /\ cmds = <<>>
  /\ prev_needed = CHARGE_MINIMUM
  /\ prev_away = FALSE
  /\ mode_before_idle = DefaultBatteryMode
  /\ reads = 0
  /\ reading = NoReading
  /\ startup = StartupFound
  /\ commanded = 0
  /\ written = "none"
  /\ todo = <<>>
  /\ hour = 0
  /\ step = ""

NoCall == [hours_needed |-> 0, hours_budget |-> 0, hours_duration |-> 0]

\* lines 848, 868: a fresh slot list, the pool of uncommitted energy
InitFrom(pvs) ==
  /\ prices \in {FreshPrices(pv) : pv \in pvs}
  /\ charge_left \in {InitialChargeLeft(b) : b \in BatteryLevels}
  /\ pc = "events"
  /\ nevents = 0
  /\ last_start = 0
  /\ last_depart = 0
  /\ warning = FALSE
  /\ last_charge = 0
  /\ call = NoCall
  /\ before = prices
  /\ mid = prices
  /\ CycleAtRest

Init == InitFrom(PriceVectors)

\* lines 886-887: the warning that the event cannot be charged in time
\* (faulty variant: the warning is logged only when there is no budget at all)
BudgetWarningNoBudget(hours_needed, hours_budget) ==
  hours_budget < 1 /\ hours_budget < hours_needed
BudgetWarning(hours_needed, hours_budget) == hours_budget < hours_needed

\* line 895: the pool after an event took its energy
\* (faulty variant: the pool is not kept at zero or above)
PoolAfterNoFloor(left, energy) == left - energy
PoolAfter(left, energy) == Max(left - energy, 0)

\* lines 869-895: the loop takes the next event, logs the warning, calls
\* update_charge and lowers the pool
PlanEvent(e) ==
  /\ pc = "events"
  /\ nevents < MaxEvents
  /\ e.start >= last_start
  /\ LET hn == event_hours_needed(e, charge_left)
         hb == event_hours_budget(e)
         hd == event_hours_duration(e)
     IN /\ call' = [hours_needed |-> hn, hours_budget |-> hb, hours_duration |-> hd]
        /\ before' = prices
        /\ mid' = AfterReserve(prices, hn, hb)
        /\ prices' = update_charge(prices, hn, hb, hd)
        /\ warning' = BudgetWarning(hn, hb)
  /\ charge_left' = PoolAfter(charge_left, event_charge(e))
  /\ last_charge' = event_charge(e)
  /\ nevents' = nevents + 1
  /\ last_start' = e.start
  /\ last_depart' = event_depart(e)
  /\ pc' = "sweep"
  /\ UNCHANGED cyclevars

\* lines 899-911: the pool is empty, the slots up to the departure are closed
FullBatterySweep ==
  /\ pc = "sweep"
  /\ charge_left = 0
  /\ prices' = MarkFull(prices)
  /\ pc' = "events"
  /\ UNCHANGED <<charge_left, nevents, last_start, last_depart, warning,
                 last_charge, call, before, mid>>
  /\ UNCHANGED cyclevars

\* line 899 false: the pool is not empty
NoSweep ==
  /\ pc = "sweep"
  /\ charge_left # 0
  /\ pc' = "events"
  /\ UNCHANGED <<prices, charge_left, nevents, last_start, last_depart, warning,
                 last_charge, call, before, mid>>
  /\ UNCHANGED cyclevars

\* the for loop of line 869 has no further event
EndOfEvents ==
  /\ pc = "events"
  /\ pc' = "planned"
  /\ UNCHANGED <<prices, charge_left, nevents, last_start, last_depart, warning,
                 last_charge, call, before, mid>>
  /\ UNCHANGED cyclevars

Next ==
  \/ \E e \in Events : PlanEvent(e)
  \/ FullBatterySweep
  \/ NoSweep
  \/ EndOfEvents

Spec == Init /\ [][Next]_vars

-----------------------------------------------------------------------------
(* The scenario of 24 hourly slots with one event *)

\* prices of hours 0..3 are 0.10, 0.05, 0.30, 0.08 (in cents); the later
\* hours all cost the filler price
ScenarioPrices(filler) ==
  [i \in 1..24 |-> IF i <= 4 THEN <<10, 5, 30, 8>>[i] ELSE filler]

\* the event of the scenario leaves in 3.5 hours and is away for 5 hours;
\* the other events leave earlier or stay shorter
ScenarioEvents ==
  {e \in Events : /\ e.time = 1800
                  /\ e.start \in {0, 14400}
                  /\ e.end - e.start \in {3600, 14400}}

ScenarioInit ==
  /\ prices \in {FreshPrices(ScenarioPrices(f)) : f \in {4, 20}}
  /\ charge_left \in {InitialChargeLeft(b) : b \in BatteryLevels}
  /\ pc = "events"
  /\ nevents = 0
  /\ last_start = 0
  /\ last_depart = 0
  /\ warning = FALSE
  /\ last_charge = 0
  /\ call = NoCall
  /\ before = prices
  /\ mid = prices
  /\ CycleAtRest

ScenarioNext ==
  \/ \E e \in ScenarioEvents : PlanEvent(e)
  \/ FullBatterySweep
  \/ NoSweep
  \/ EndOfEvents

ScenarioSpec == ScenarioInit /\ [][ScenarioNext]_vars

-----------------------------------------------------------------------------
(* Vocabulary of the properties.  Slot i of the list (1-based here) has    *)
(* index i - 1 in the code's time-ordered list.                            *)

\* update_charge has just returned: prices is its result for the list
\* 'before' and the arguments 'call'
Called == pc = "sweep"

Slots == 1..Len(prices)

\* the budget the call works with
ClampedBudget == IF call.hours_budget < 1 THEN 1 ELSE call.hours_budget

WasUndecided(i) == before[i].charge = "None"
NewlyReserved == {i \in Slots : WasUndecided(i) /\ prices[i].charge = "True"}
NewlyBlocked == {i \in Slots : before[i].charge # "False" /\ prices[i].charge = "False"}

\* the deadline window: the first ClampedBudget undecided slots in time order
DeadlineWindow ==
  {i \in Slots :
     /\ WasUndecided(i)
     /\ Cardinality({j \in 1..(i - 1) : WasUndecided(j)}) < ClampedBudget}

\* the away window: list indexes b+1 .. b+hours_duration
InAwayRange(i) ==
  /\ i - 1 >= ClampedBudget + 1
  /\ i - 1 < ClampedBudget + call.hours_duration + 1

RECURSIVE TotalPrice(_)
TotalPrice(S) ==
  IF S = {} THEN 0
  ELSE LET i == CHOOSE k \in S : TRUE
       IN before[i].price + TotalPrice(S \ {i})

-----------------------------------------------------------------------------
(* Properties *)

\* C1: a slot that is RESERVED or BLOCKED before an update_charge call has
\* the same charge value after the call.
C1_DecidedSlotsKept ==
  Called => \A i \in Slots :
              before[i].charge # "None" => prices[i].charge = before[i].charge

\* a call whose away window holds a slot that was already RESERVED, on a
\* list that also held a BLOCKED slot
C1_Witness ==
  /\ Called
  /\ \E i \in Slots : before[i].charge = "True" /\ InAwayRange(i)
  /\ \E i \in Slots : before[i].charge = "False"

\* C2: the number of slots one call turns from UNDECIDED to RESERVED is
\* min(hours_needed, max(1, hours_budget), number of UNDECIDED slots in the
\* deadline window).
C2_ReservedCount ==
  Called =>
    Cardinality(NewlyReserved) =
      Min(call.hours_needed, Min(ClampedBudget, Cardinality(DeadlineWindow)))

\* a call that needs more hours than its window holds, on a list with
\* decided slots, and reserves at least one
C2_Witness ==
  /\ Called
  /\ Cardinality(NewlyReserved) >= 1
  /\ call.hours_needed > Cardinality(DeadlineWindow)
  /\ Cardinality(DeadlineWindow) < ClampedBudget
  /\ \E i \in Slots : ~WasUndecided(i)

\* C3: the slots one call reserves are the cheapest of the deadline window:
\* no window slot left unreserved is strictly cheaper than a reserved one,
\* and the reserved set has the least total price among the subsets of the
\* window of its size.
C3_CheapestReserved ==
  Called =>
    /\ NewlyReserved \subseteq DeadlineWindow
    /\ \A i \in DeadlineWindow \ NewlyReserved : \A j \in NewlyReserved :
         ~(before[i].price < before[j].price)
    /\ \A S \in SUBSET DeadlineWindow :
         Cardinality(S) = Cardinality(NewlyReserved) =>
           TotalPrice(NewlyReserved) <= TotalPrice(S)

\* a call that passes over an earlier, dearer window slot for a later,
\* cheaper one
C3_Witness ==
  /\ Called
  /\ \E i \in DeadlineWindow \ NewlyReserved : \E j \in NewlyReserved :
       i < j /\ before[i].price > before[j].price

\* C4: every slot a call reserves has a list index below max(1, hours_budget),
\* also when earlier calls or sweeps have decided some slots.
C4_ReservedBeforeDeparture ==
  Called => \A i \in NewlyReserved : i - 1 < ClampedBudget

\* C5: of two UNDECIDED window slots of equal price the earlier is picked
\* first: if the later is reserved by the call, so is the earlier.
C5_EarlierOnTie ==
  Called =>
    \A i, j \in DeadlineWindow :
      (i < j /\ before[i].price = before[j].price /\ j \in NewlyReserved)
        => i \in NewlyReserved

\* a call that reserves the earlier of two equally priced window slots and
\* leaves the later one
C5_Witness ==
  /\ Called
  /\ \E i, j \in DeadlineWindow :
       /\ i < j
       /\ before[i].price = before[j].price
       /\ i \in NewlyReserved
       /\ j \notin NewlyReserved

\* C6: the slots one call turns BLOCKED are exactly the slots that are not
\* RESERVED and not already BLOCKED with list index in [b+1, b+hours_duration+1),
\* b = max(1, hours_budget), cut at the end of the list.
C6_BlockedExactly ==
  Called =>
    NewlyBlocked =
      {i \in Slots : /\ InAwayRange(i)
                     /\ mid[i].charge # "True"
                     /\ before[i].charge # "False"}

\* a call that blocks a slot, keeps a RESERVED slot of its away window and
\* whose away window runs past the end of the list
C6_Witness ==
  /\ Called
  /\ NewlyBlocked # {}
  /\ \E i \in Slots : InAwayRange(i) /\ prices[i].charge = "True"
  /\ ClampedBudget + call.hours_duration + 1 > Len(prices)

\* C7: a slot of the call's away window that was RESERVED before the call,
\* or that the call's own reservation step reserved, is RESERVED after it.
C7_ReservationWins ==
  Called =>
    \A i \in Slots :
      (InAwayRange(i) /\ (before[i].charge = "True" \/ mid[i].charge = "True"))
        => prices[i].charge = "True"

\* a call whose own reservation lies inside its away window
C7_Witness ==
  /\ Called
  /\ \E i \in Slots : InAwayRange(i) /\ WasUndecided(i) /\ mid[i].charge = "True"
  /\ \E i \in Slots : InAwayRange(i) /\ prices[i].charge = "False"

\* the one call of the scenario has returned
ScenarioCalled ==
  /\ Called
  /\ nevents = 1
  /\ Len(before) = 24
  /\ \A i \in 1..Len(before) : before[i].charge = "None"
  /\ call = [hours_needed |-> 2, hours_budget |-> 3, hours_duration |-> 5]

\* C8 as stated: on 24 fresh slots with prices 0.10, 0.05, 0.30, 0.08 for
\* hours 0..3, update_charge(2, 3, 5) leaves hours 1 and 3 RESERVED, hours
\* 4..8 BLOCKED and hour 2 UNDECIDED.
C8_ScenarioAsStated ==
  ScenarioCalled =>
    /\ prices[2].charge = "True"
    /\ prices[4].charge = "True"
    /\ \A i \in 5..9 : prices[i].charge = "False"
    /\ prices[3].charge = "None"

\* C8 amended: the call leaves hours 0 and 1 RESERVED (the two cheapest of
\* the window of hours 0..2), hours 4..8 BLOCKED and every other hour, hours
\* 2 and 3 among them, UNDECIDED.
C8_Scenario ==
  ScenarioCalled =>
    \A i \in Slots :
      prices[i].charge = IF i \in {1, 2} THEN "True"
                         ELSE IF i \in 5..9 THEN "False"
                         ELSE "None"

C8_Witness == ScenarioCalled /\ prices[1].charge = "True"

\* C9: a call with hours_budget <= 0 gives the list the call with
\* hours_budget = 1 gives; with hours_needed >= 1 and the first slot
\* UNDECIDED the first slot becomes RESERVED.
C9_OverdueAsOneHour ==
  (Called /\ call.hours_budget <= 0) =>
    /\ prices = update_charge(before, call.hours_needed, 1, call.hours_duration)
    /\ (call.hours_needed >= 1 /\ WasUndecided(1)) => prices[1].charge = "True"

\* an overdue event that needs charge and gets the current hour
C9_Witness ==
  /\ Called
  /\ call.hours_budget < 0
  /\ call.hours_needed >= 1
  /\ WasUndecided(1)
  /\ prices[1].charge = "True"
  /\ NewlyBlocked # {}

\* C10: along the calls and sweeps of a cycle a decided slot keeps its
\* charge: a slot changes at most once, from UNDECIDED to RESERVED or BLOCKED.
C10_DecidedForGood ==
  [][/\ Len(prices') = Len(prices)
     /\ \A i \in Slots :
          prices[i].charge # "None" => prices'[i].charge = prices[i].charge]_vars

\* two events and a sweep have run, leaving a RESERVED slot between two
\* BLOCKED ones
C10_Witness ==
  /\ pc = "events"
  /\ nevents = 2
  /\ charge_left = 0
  /\ \E i, j, k \in Slots :
       /\ i < j /\ j < k
       /\ prices[i].charge = "False"
       /\ prices[j].charge = "True"
       /\ prices[k].charge = "False"

-----------------------------------------------------------------------------
(* main: the polling loop.  One cycle reads the vehicle, passes the        *)
(* geofence, cable and override gates, plans the events and runs one       *)
(* branch of the policy.  A collaborator answers, fails or is interrupted; *)
(* the inverter takes a write or refuses it.  The fold PlanEvents is the   *)
(* planning loop above run to its end.                                     *)

\* battery level, charge limit (percent) and charge rate of a snapshot
CycleBatteryLevels == {20, 40, 60, 99}
CycleLimits == {32, 49, 50, 60, 70, 98}
ChargeRates == {0, 20}
\* cost_kWh_level of the current hour, vehicle status in the database
Levels == {"NORMAL", "CHEAP", "VERY_CHEAP"}
Statuses == {"online", "offline"}
\* register pairs the inverter is in when nothing forces it to idle
InverterModes == {<<1, 0>>, <<4, 7>>}
\* the price feed of a cycle
CyclePriceVectors ==
  {[i \in 1..NumSlots |-> 5], [i \in 1..NumSlots |-> IF i = 1 THEN 8 ELSE 5]}
\* line 151: every slot comes with the cost_kWh_level of its hour
LevelledPrices(pv, lv) ==
  [i \in 1..Len(pv) |->
     [datetime |-> FreshPrices(pv)[i].datetime,
      price |-> FreshPrices(pv)[i].price,
      charge |-> FreshPrices(pv)[i].charge,
      level |-> lv[i]]]
\* the levels of the feed: the current hour has any level, the hours after
\* it are NORMAL
CycleLevelVectors ==
  {[i \in 1..NumSlots |-> IF i = 1 THEN l ELSE "NORMAL"] : l \in Levels}
\* an appointment in town and one 84 km away, and the event lists
\* get_calendar_events returns (ordered by start time)
LocalEvent == [start |-> 5400, end |-> 9000, time |-> 1800, distance |-> 0]
FarEvent == [start |-> 14400, end |-> 18000, time |-> 1800, distance |-> 84000]
\* a trip of 180 km that leaves in the hour after this one and takes more
\* than the battery can still be charged with
DistantEvent ==
  [start |-> 10800, end |-> 14400, time |-> 7200, distance |-> 180000]
CycleEventLists ==
  {<<>>, <<LocalEvent>>, <<FarEvent>>, <<DistantEvent, FarEvent>>}

\* the snapshots get_vehicle_data_from_db returns; at_home is the outcome
\* of the latitude/longitude test of line 808
Snapshots ==
  [battery_level : CycleBatteryLevels, battery_limit : CycleLimits,
   charge_rate : ChargeRates, at_home : BOOLEAN,
   charge_port : {"Engaged", "Disengaged"}]

\* a call to a collaborator
Command(c, a) == [cmd |-> c, arg |-> a]

\* total_distance of get_calendar_events
RECURSIVE TotalDistance(_)
TotalDistance(evs) ==
  IF evs = <<>> THEN 0 ELSE Head(evs).distance + TotalDistance(Tail(evs))

\* kwh_needed of lines 856-860, in mWh
kwh_needed_mWh(evs) ==
  IF Len(evs) > 0
  THEN (WARMUP_KWH * 1000000 * Len(evs) + TotalDistance(evs) * MWH_PER_METER) * 2
         + CHARGE_RETURNING * 1000000
  ELSE 0

\* kwh_needed / BATTERY_CAPACITY * 100 is computed in floating point: the
\* whole numbers of kWh below, divided by 100 and multiplied by 100, land
\* just above themselves (28.0 / 100 * 100 = 28.000000000000004), all
\* others up to 2147 kWh (the largest the mWh count can hold) on themselves
\* or just below
RoundedUpKWh ==
  {7, 14, 28, 55, 56, 109, 110, 111, 112, 218, 220, 222, 224, 243, 245,
   247, 249, 411, 415, 419, 423, 436, 440, 444, 448, 461, 465, 469, 473,
   486, 490, 494, 498, 511, 805, 813, 821, 822, 830, 838, 846, 847, 855,
   863, 871, 872, 880, 888, 896, 897, 905, 913, 921, 922, 930, 938, 946,
   947, 955, 963, 971, 972, 980, 988, 996, 997, 1005, 1013, 1021, 1022,
   1601, 1610, 1617, 1619, 1626, 1635, 1642, 1644, 1651, 1660, 1667, 1669,
   1676, 1685, 1692, 1694, 1701, 1710, 1717, 1719, 1726, 1735, 1742, 1744,
   1751, 1760, 1767, 1769, 1776, 1785, 1792, 1794, 1801, 1810, 1817, 1819,
   1826, 1835, 1842, 1844, 1851, 1860, 1867, 1869, 1876, 1885, 1892, 1894,
   1901, 1910, 1917, 1919, 1926, 1935, 1942, 1944, 1951, 1960, 1967, 1969,
   1976, 1985, 1992, 1994, 2001, 2010, 2017, 2019, 2026, 2035, 2042, 2044}

\* math.ceil(kwh_needed / BATTERY_CAPACITY * 100), kwh_needed in mWh
\* (mWh / 1000000 * 100 is mWh / 10000): the ceiling of the exact quotient,
\* and one more where the float quotient lies above a whole number. A
\* kwh_needed that is not whole is at least 0.0005 away from one, further
\* than any rounding error
PercentCeil(mWh) ==
  CeilDiv(mWh, BATTERY_CAPACITY * 10000)
    + (IF BATTERY_CAPACITY = 100 /\ mWh % 1000000 = 0
          /\ (mWh \div 1000000) \in RoundedUpKWh
       THEN 1 ELSE 0)

\* (faulty variant: the floor at CHARGE_MINIMUM is missing)
ChargeNeededNoFloor(evs) == Min(PercentCeil(kwh_needed_mWh(evs)), 100)
\* (faulty variant: the cap at 100 is missing)
ChargeNeededNoCap(evs) == Max(PercentCeil(kwh_needed_mWh(evs)), CHARGE_MINIMUM)
\* charge_needed = math.ceil(max(min(kwh_needed / BATTERY_CAPACITY * 100, 100),
\*                               CHARGE_MINIMUM))
ChargeNeeded(evs) ==
  Max(Min(PercentCeil(kwh_needed_mWh(evs)), 100), CHARGE_MINIMUM)

\* lines 869-911 over the whole event list
RECURSIVE PlanEvents(_, _, _)
PlanEvents(ps, left, evs) ==
  IF evs = <<>> THEN ps
  ELSE LET e == Head(evs)
           marked == update_charge(ps, event_hours_needed(e, left),
                                   event_hours_budget(e), event_hours_duration(e))
           left1 == PoolAfter(left, event_charge(e))
       IN PlanEvents(IF left1 = 0 THEN MarkFull(marked) ELSE marked, left1, Tail(evs))

\* line 923 reads the clock anew: the hour may have turned since the price
\* query of line 848 (the calendar and directions requests take their
\* time), and now is then in a later slot of the list than its first
MaxTurns == 1
ClockHours == 0..MaxTurns
\* lines 921-926: the slot that contains now, which is the one of hour h, is
\* marked True
ChargeSlot(ps, h) ==
  \E i \in 1..Len(ps) : ps[i].datetime = h /\ ps[i].charge = "True"

\* lines 808-824: set_charge_limit(CHARGE_DEFAULT) when the car drove out
\* (away now, car_away False) or came home (at home now, car_away True)
\* (faulty variant: the limit is reset in every cycle)
GeofenceCommandsAlways(at_home, was_away) ==
  <<Command("set_charge_limit", CHARGE_DEFAULT)>>
GeofenceCommands(at_home, was_away) ==
  IF at_home = was_away
  THEN <<Command("set_charge_limit", CHARGE_DEFAULT)>>
  ELSE <<>>

\* line 837: the limit is none of the values the script sets itself
\* (faulty variant: CHARGE_MINIMUM counts as one of the script's own limits)
IsUserOverrideButMinimum(current_limit, needed) ==
  current_limit \notin
    {CHARGE_DEFAULT, CHARGE_CHEAP, CHARGE_VERY_CHEAP, CHARGE_MINIMUM, needed}
IsUserOverride(current_limit, needed) ==
  /\ current_limit # CHARGE_DEFAULT
  /\ current_limit # CHARGE_CHEAP
  /\ current_limit # CHARGE_VERY_CHEAP
  /\ current_limit # needed

\* the gates of lines 808, 827 and 837 in their order: where the cycle ends
\* (faulty variant: the cable is not looked at)
GateOutcomeNoCable(cd, needed) ==
  IF ~cd.at_home THEN "away"
  ELSE IF IsUserOverride(cd.battery_limit, needed) THEN "override"
  ELSE "passed"
GateOutcome(cd, needed) ==
  IF ~cd.at_home THEN "away"
  ELSE IF cd.charge_port # "Engaged" THEN "cable"
  ELSE IF IsUserOverride(cd.battery_limit, needed) THEN "override"
  ELSE "passed"

\* the if/elif chain of lines 927, 951, 975, 999, 1022
\* (faulty variant: the minimum floor is tested before the event branch)
PolicyBranchMinimumFirst(battery_level, needed, charge_slot, lvl) ==
  IF battery_level < CHARGE_MINIMUM THEN "minimum"
  ELSE IF battery_level < needed /\ charge_slot THEN "event"
  ELSE IF lvl = "CHEAP" /\ battery_level < CHARGE_CHEAP THEN "cheap"
  ELSE IF lvl = "VERY_CHEAP" /\ battery_level < CHARGE_VERY_CHEAP THEN "very_cheap"
  ELSE "no_window"
\* (faulty variant: the minimum floor waits for a price that is not NORMAL)
PolicyBranchMinimumByPrice(battery_level, needed, charge_slot, lvl) ==
  IF battery_level < needed /\ charge_slot THEN "event"
  ELSE IF battery_level < CHARGE_MINIMUM /\ lvl # "NORMAL" THEN "minimum"
  ELSE IF lvl = "CHEAP" /\ battery_level < CHARGE_CHEAP THEN "cheap"
  ELSE IF lvl = "VERY_CHEAP" /\ battery_level < CHARGE_VERY_CHEAP THEN "very_cheap"
  ELSE "no_window"
PolicyBranch(battery_level, needed, charge_slot, lvl) ==
  IF battery_level < needed /\ charge_slot THEN "event"
  ELSE IF battery_level < CHARGE_MINIMUM THEN "minimum"
  ELSE IF lvl = "CHEAP" /\ battery_level < CHARGE_CHEAP THEN "cheap"
  ELSE IF lvl = "VERY_CHEAP" /\ battery_level < CHARGE_VERY_CHEAP THEN "very_cheap"
  ELSE "no_window"

\* my_limit of the branch (lines 936, 964, 987, 1011)
BranchLimit(branch, needed) ==
  CASE branch = "event" -> needed
    [] branch = "minimum" -> CHARGE_MINIMUM
    [] branch = "cheap" -> CHARGE_CHEAP
    [] branch = "very_cheap" -> CHARGE_VERY_CHEAP

\* the body the four charging branches share (lines 930-943): wake the
\* car unless online, idle the home battery, set the limit if the snapshot
\* has another one, start charging if the snapshot does not charge
\* (faulty variants: the car is woken whatever its status; the charge is
\* started whatever the snapshot says)
ChargeCommandsWakeAlways(cd, st, limit, host) ==
  <<Command("wake_up", 0)>>
    \o (IF host THEN <<Command("inverter_idle", 0)>> ELSE <<>>)
    \o (IF cd.battery_limit # limit
        THEN <<Command("set_charge_limit", limit)>> ELSE <<>>)
    \o (IF cd.charge_rate = 0 THEN <<Command("set_start_charging", 0)>> ELSE <<>>)
ChargeCommandsStartAlways(cd, st, limit, host) ==
  (IF st # "online" THEN <<Command("wake_up", 0)>> ELSE <<>>)
    \o (IF host THEN <<Command("inverter_idle", 0)>> ELSE <<>>)
    \o (IF cd.battery_limit # limit
        THEN <<Command("set_charge_limit", limit)>> ELSE <<>>)
    \o <<Command("set_start_charging", 0)>>
ChargeCommands(cd, st, limit, host) ==
  (IF st # "online" THEN <<Command("wake_up", 0)>> ELSE <<>>)
    \o (IF host THEN <<Command("inverter_idle", 0)>> ELSE <<>>)
    \o (IF cd.battery_limit # limit
        THEN <<Command("set_charge_limit", limit)>> ELSE <<>>)
    \o (IF cd.charge_rate = 0 THEN <<Command("set_start_charging", 0)>> ELSE <<>>)

\* set_charge_current (lines 524-542): the request for the charging current.
\* The function is defined but its calls are commented out (lines 943, 969,
\* 993, 1016), so no branch makes this call
set_charge_current(amps) == <<Command("set_charging_amps", amps)>>

\* lines 544-549: the limit of the last set_charge_limit among the commands,
\* or the one sent before them
RECURSIVE LastLimit(_, _)
LastLimit(cs, earlier) ==
  IF cs = <<>> THEN earlier
  ELSE IF cs[Len(cs)].cmd = "set_charge_limit" THEN cs[Len(cs)].arg
  ELSE LastLimit(SubSeq(cs, 1, Len(cs) - 1), earlier)

\* the last command of the branch is the start request of line 557
StartIssued(cs) == cs # <<>> /\ cs[Len(cs)].cmd = "set_start_charging"

\* line 564: for _ in range(10)
POLL_READS == 10
\* line 70, in millionths
MILES_TO_KM == 1609344
\* line 565: what a read of the poll returns as charger_actual_current
ChargerCurrents == {0, 16}
PollReadings == ChargerCurrents \cup {NoReading}

\* lines 566-573: the read confirms the charge (a failed read raises inside
\* the try and confirms nothing)
Confirmed(r) == r # NoReading /\ r * MILES_TO_KM > 0

\* lines 564-575: the poll is over after the read that confirms, or after
\* the last of its reads
PollOver(n, r) == Confirmed(r) \/ n = POLL_READS

\* the first command of the no-window branch is the stop request of line 579
StopIssued(cs) == cs # <<>> /\ cs[1].cmd = "set_stop_charging"
\* lines 591-596: the read shows the charge stopped
Stopped(r) == r # NoReading /\ r * MILES_TO_KM = 0
\* lines 589-598: the poll of set_stop_charging is over after the read that
\* shows no charge, or after the last of its reads
StopPollOver(n, r) == Stopped(r) \/ n = POLL_READS

\* the else branch (lines 1025-1033)
\* (faulty variant: the stop is sent whatever the snapshot says)
NoWindowCommandsStopAlways(cd, host) ==
  <<Command("set_stop_charging", 0)>>
    \o (IF host THEN <<Command("inverter_active", 0)>> ELSE <<>>)
NoWindowCommands(cd, host) ==
  (IF cd.charge_rate > 0 THEN <<Command("set_stop_charging", 0)>> ELSE <<>>)
    \o (IF host THEN <<Command("inverter_active", 0)>> ELSE <<>>)

\* set_inverter_mode (lines 600-639) writes the registers one after the
\* other: register 1 is storage_control_mode, register 2 is rc_cmd_mode
InverterCommands == {"inverter_idle", "inverter_active"}
IdleMode == <<REMOTE_CONTROL_MODE, RC_CMD_IDLE>>
\* the values storage_control_mode has in the modes of InverterModes
StorageModes == {m[1] : m \in InverterModes}
\* the pair with register k set to v
WithRegister(mode, k, v) == IF k = 1 THEN <<v, mode[2]>> ELSE <<mode[1], v>>

\* lines 611, 612, 622, 626: the value the call c writes to register k:
\* Remote Control and idle in the call for idle, the stored pair in the
\* call for active
\* (faulty variant: the call for active writes the default of line 91)
RegisterWrittenDefault(c, stored, k) ==
  IF c = "inverter_idle" THEN IdleMode[k] ELSE DefaultBatteryMode[k]
RegisterWritten(c, stored, k) ==
  IF c = "inverter_idle" THEN IdleMode[k] ELSE stored[k]

\* lines 608-611, 619-622: the write the call begins with: the call for
\* idle writes storage_control_mode only when it does not read Remote Control
FirstWrite(c, mode) ==
  IF c = "inverter_idle" /\ mode[1] = REMOTE_CONTROL_MODE
  THEN "second" ELSE "first"
\* lines 612, 626, 631-633: what follows the write of step s when the
\* inverter took it: the second write, the read-back of the call for idle,
\* or the end of the call
AfterWrite(c, s) ==
  IF s = "first" THEN "second"
  ELSE IF c = "inverter_idle" THEN "readback"
  ELSE ""
\* lines 613-615, 622, 627-629: a refused write (inverter.write raises) is
\* caught, logged and ends the call, but for the write of line 622, which
\* stands outside any try and raises out of the call
WriteRaises(c, s) == c = "inverter_idle" /\ s = "first"

\* what the variable written says of an inverter call:
\*   writing      the call has begun and nobody else wrote since
\*   idle, active the call ran to its end, the inverter took its writes
\*                and nobody else wrote since the call began
\*   refused      the inverter could not be reached or refused a write
\*   overwritten  the inverter was written from outside since the call began
\*   cut          the loop or the process was left inside the call
Completed(c, w) ==
  IF w = "overwritten" THEN "overwritten"
  ELSE IF c = "inverter_idle" THEN "idle"
  ELSE "active"
Cut(w, s) == IF s \in {"first", "second", "readback"} THEN "cut" ELSE w

\* lines 1040-1049: what the finally block does: the database is closed,
\* then a configured inverter is set to active and disconnected
FinallyCalls(host) ==
  <<Command("close_database", 0)>>
    \o (IF host
        THEN <<Command("inverter_active", 0), Command("inverter_disconnect", 0)>>
        ELSE <<>>)

\* How one request to the vehicle ends, as the loop sees it. It returns
\* (done); or SIGINT arrives while it runs or waits (sleep(5) of wake_up,
\* sleep(10) of the polls); or it raises:
\*   wake_failure       the request of wake_up raises, the handler of line
\*                      508 logs it and line 510 reads the unbound response;
\*                      or the answer of the wake is no JSON or lacks its key
\*   poll_failure       a read of the poll of set_start_charging or
\*                      set_stop_charging is answered with a body that is
\*                      no JSON (line 390) or lacks a key (lines 394-405):
\*                      get_vehicle_data_from_tessie catches the request
\*                      only, and the try of the poll begins after the read
\* A failed request of set_charge_limit, set_start_charging or
\* set_stop_charging is caught inside the call. With polled, the poll of
\* set_start_charging and set_stop_charging is part of the call; without,
\* the call is the request and the poll follows read by read. requests.get
\* is called without a timeout (lines 507, 549, 557, 580): a request that
\* never returns is the behaviour in which the call is never taken, which
\* every specification without fairness on the call admits.
CallEnds(c, polled) ==
  {"done", "interrupt"}
    \cup (IF c = "wake_up" THEN {"wake_failure"} ELSE {})
    \cup (IF polled /\ c \in {"set_start_charging", "set_stop_charging"}
          THEN {"poll_failure"} ELSE {})

\* the errors of a cycle that no handler catches, and where the loop is when
\* they are raised:
\*   telemetry_failure  the query of get_vehicle_data_from_db fails, the
\*                      handler of line 440 logs it and line 442 reads the
\*                      unbound record
\*   status_failure     the same in get_vehicle_status_from_db (lines
\*                      484-490), called at line 792
\*   price_failure      get_electricity_prices returns -1 (line 143), which
\*                      has no len() and cannot be iterated (lines 853, 913,
\*                      922), or finds no row and reads prices[0] (line 153)
\*   trip_failure       a calendar or directions request of
\*                      get_calendar_events raises (lines 293-334)
\*   db_failure         db.ping or db.commit of the loop head raises (lines
\*                      757, 762), before the sleep
\* (the status read of a charging branch, line 929 and its like, fails in
\* ChargeBranch, the calls of a branch in Call, WriteRegister and ReadBack,
\* a read of a poll in PollRead)
Failures ==
  {"telemetry_failure", "status_failure", "price_failure", "trip_failure",
   "db_failure"}
FailurePoint(cause) ==
  CASE cause = "telemetry_failure" -> "read"
    [] cause = "status_failure" -> "read"
    [] cause = "price_failure" -> "plan"
    [] cause = "trip_failure" -> "planning"
    [] cause = "db_failure" -> "sleep"

\* what is set when the process starts and stays as it is
config == <<stored_battery_mode, google, inverter_host, startup>>
\* the confirmation poll of set_start_charging or set_stop_charging
poll == <<reads, reading>>
\* where the loop stands: the calls left, the clock it read, the step of
\* the running call
position == <<todo, hour, step>>
\* what one cycle reads and does
observed ==
  <<cardata, level, events, outcome, status, cmds, prev_needed, prev_away>>

\* main when it enters the loop (lines 699-745): the calendar is authorised
\* or not, an inverter is set up or not and its registers were read into
\* stored_battery_mode, storage_control_mode first (line 710), rc_cmd_mode
\* after it (line 711): written from outside between the two reads, the
\* inverter is in a mode whose storage_control_mode is not the one stored;
\* car_away False, charge_needed CHARGE_MINIMUM
CycleInit ==
  /\ prices = <<>>
  /\ pc = "read"
  /\ charge_left = 0
  /\ nevents = 0
  /\ last_start = 0
  /\ last_depart = 0
  /\ warning = FALSE
  /\ last_charge = 0
  /\ call = NoCall
  /\ before = <<>>
  /\ mid = <<>>
  /\ car_away = FALSE
  /\ charge_needed = CHARGE_MINIMUM
  /\ google \in BOOLEAN
  /\ inverter_host \in BOOLEAN
  /\ inverter_mode \in
       (IF inverter_host THEN InverterModes ELSE {DefaultBatteryMode})
  /\ stored_battery_mode \in
       (IF inverter_host
        THEN {<<s, inverter_mode[2]>> : s \in StorageModes}
        ELSE {DefaultBatteryMode})
  /\ mode_before_idle = inverter_mode
  /\ cardata = NoCardata
  /\ level = ""
  /\ events = <<>>
  /\ outcome = "none"
  /\ status = ""
  /\ cmds = <<>>
  /\ prev_needed = CHARGE_MINIMUM
  /\ prev_away = FALSE
  /\ reads = 0
  /\ reading = NoReading
  /\ startup = StartupFound
  /\ commanded = 0
  /\ written = "none"
  /\ todo = <<>>
  /\ hour = 0
  /\ step = ""

\* lines 787-821: the snapshot of the cycle, and the test of the geofence
\* step on it: set_charge_limit(CHARGE_DEFAULT) is to be called when the
\* car drove out or came home
ReadVehicle(cd) ==
  /\ pc = "read"
  /\ cardata' = cd
  /\ prev_needed' = charge_needed
  /\ prev_away' = car_away
  /\ todo' = GeofenceCommands(cd.at_home, car_away)
  /\ pc' = "gates"
  /\ UNCHANGED <<written, prices, planvars, config, poll, hour, step,
                 car_away, charge_needed, inverter_mode, mode_before_idle,
                 level, events, outcome, status, cmds>>

\* lines 815-816: the car is not at home: after the call of the geofence
\* step, if any, car_away is set and the cycle ends
CarAway ==
  /\ pc = "gates"
  /\ todo = <<>>
  /\ GateOutcome(cardata, charge_needed) = "away"
  /\ car_away' = TRUE
  /\ outcome' = "away"
  /\ pc' = "sleep"
  /\ UNCHANGED <<written, prices, planvars, config, poll, position,
                 charge_needed, inverter_mode, mode_before_idle, cardata,
                 level, events, status, cmds, prev_needed, prev_away>>

\* lines 822-829: at home: after the call of the geofence step, if any,
\* car_away is cleared; the cable is not connected and the cycle ends
CableOut ==
  /\ pc = "gates"
  /\ todo = <<>>
  /\ GateOutcome(cardata, charge_needed) = "cable"
  /\ car_away' = FALSE
  /\ outcome' = "cable"
  /\ pc' = "sleep"
  /\ UNCHANGED <<written, prices, planvars, config, poll, position,
                 charge_needed, inverter_mode, mode_before_idle, cardata,
                 level, events, status, cmds, prev_needed, prev_away>>

\* lines 822-839: at home and connected, car_away is cleared; the limit is
\* the user's and the cycle ends
\* (faulty variant: the next cycle begins at once, without the sleep)
UserOverrideNoSleep ==
  /\ pc = "gates"
  /\ todo = <<>>
  /\ GateOutcome(cardata, charge_needed) = "override"
  /\ car_away' = FALSE
  /\ outcome' = "override"
  /\ pc' = "read"
  /\ UNCHANGED <<written, prices, planvars, config, poll, position,
                 charge_needed, inverter_mode, mode_before_idle, cardata,
                 level, events, status, cmds, prev_needed, prev_away>>
UserOverride ==
  /\ pc = "gates"
  /\ todo = <<>>
  /\ GateOutcome(cardata, charge_needed) = "override"
  /\ car_away' = FALSE
  /\ outcome' = "override"
  /\ pc' = "sleep"
  /\ UNCHANGED <<written, prices, planvars, config, poll, position,
                 charge_needed, inverter_mode, mode_before_idle, cardata,
                 level, events, status, cmds, prev_needed, prev_away>>

\* lines 822-841: car_away is cleared and all three gates are passed
GatesPassed ==
  /\ pc = "gates"
  /\ todo = <<>>
  /\ GateOutcome(cardata, charge_needed) = "passed"
  /\ car_away' = FALSE
  /\ pc' = "plan"
  /\ UNCHANGED <<written, prices, planvars, config, poll, position,
                 charge_needed, inverter_mode, mode_before_idle, cardata,
                 level, events, outcome, status, cmds, prev_needed,
                 prev_away>>

\* line 848: the prices are fetched, every slot of the new list undecided,
\* each with the level of its hour; level is the one of the first slot
FetchPrices(pv, lv) ==
  /\ pc = "plan"
  /\ prices' = LevelledPrices(pv, lv)
  /\ level' = lv[1]
  /\ cmds' = cmds \o <<Command("get_electricity_prices", 0)>>
  /\ pc' = "planning"
  /\ UNCHANGED <<written, planvars, config, poll, position, car_away,
                 charge_needed, inverter_mode, mode_before_idle, cardata,
                 events, outcome, status, prev_needed, prev_away>>

\* lines 850-918: with calendar access the events are fetched, charge_needed
\* is computed and the slots are planned
PlanCycle(evs) ==
  /\ pc = "planning"
  /\ google \/ evs = <<>>
  /\ events' = evs
  /\ IF google
     THEN /\ cmds' = cmds \o <<Command("get_calendar_events", 0)>>
          /\ charge_needed' = ChargeNeeded(evs)
          /\ prices' = PlanEvents(prices,
                                  InitialChargeLeft(cardata.battery_level), evs)
     ELSE /\ UNCHANGED <<cmds, charge_needed, prices>>
  /\ pc' = "policy"
  /\ UNCHANGED <<written, planvars, config, poll, position, car_away,
                 inverter_mode, mode_before_idle, cardata, level, outcome,
                 status, prev_needed, prev_away>>

\* lines 1038-1040, after the calls cs: the loop is left by SIGINT or by an
\* error no handler catches, and the finally block is entered; the locals
\* of the cycle are dead from here on
ExitFrom(cause, cs, w) ==
  /\ pc' = "exited"
  /\ outcome' = cause
  /\ cmds' = cs
  /\ written' = w
  /\ todo' = FinallyCalls(inverter_host)
  /\ step' = ""
  /\ prices' = <<>>
  /\ cardata' = NoCardata
  /\ level' = ""
  /\ events' = <<>>
  /\ status' = ""
  /\ reads' = 0
  /\ reading' = NoReading
  /\ hour' = 0
  /\ UNCHANGED <<planvars, config, car_away, charge_needed, inverter_mode,
                 mode_before_idle, prev_needed, prev_away>>

\* lines 1040-1049: the finally block is left before its end, by SIGINT or
\* by an error: the process ends where it stands, nothing more is done
EndProcess(cause, cs, w) ==
  /\ pc' = "exited"
  /\ outcome' = cause
  /\ cmds' = cs
  /\ written' = w
  /\ todo' = <<>>
  /\ step' = ""
  /\ UNCHANGED <<prices, planvars, config, poll, hour, car_away,
                 charge_needed, inverter_mode, mode_before_idle, cardata,
                 level, events, status, prev_needed, prev_away>>

\* an exception where the process stands: out of the loop into the finally
\* block, or out of the finally block
Raise(cause, cs, w) ==
  IF pc = "exited" THEN EndProcess(cause, cs, w) ELSE ExitFrom(cause, cs, w)

\* lines 921-1020: the clock is read, a charging branch is taken and its
\* status read made (line 929 and its like), which fails as the one of line
\* 792 does; the calls of the branch are then to be made
ChargeBranch(st, h) ==
  /\ pc = "policy"
  /\ LET branch == PolicyBranch(cardata.battery_level, charge_needed,
                                ChargeSlot(prices, h), level)
         calls == ChargeCommands(cardata, st, BranchLimit(branch, charge_needed),
                                 inverter_host)
     IN /\ branch # "no_window"
        /\ \/ /\ outcome' = branch
              /\ status' = st
              /\ hour' = h
              /\ todo' = calls
              /\ pc' = IF calls = <<>> THEN "sleep" ELSE "calls"
              /\ UNCHANGED <<written, prices, planvars, config, poll, step,
                             car_away, charge_needed, inverter_mode,
                             mode_before_idle, cardata, level, events, cmds,
                             prev_needed, prev_away>>
           \/ ExitFrom("status_failure", cmds, written)

\* lines 921-1033: the clock is read and no charging branch applies: the
\* charge is to be stopped if the snapshot charges, then the home battery
\* is to be released
NoWindow(h) ==
  /\ pc = "policy"
  /\ PolicyBranch(cardata.battery_level, charge_needed,
                  ChargeSlot(prices, h), level) = "no_window"
  /\ outcome' = "no_window"
  /\ hour' = h
  /\ todo' = NoWindowCommands(cardata, inverter_host)
  /\ pc' = IF todo' = <<>> THEN "sleep" ELSE "calls"
  /\ UNCHANGED <<written, prices, planvars, config, poll, step, car_away,
                 charge_needed, inverter_mode, mode_before_idle, cardata,
                 level, events, status, cmds, prev_needed, prev_away>>

\* where the process goes after a call made at pc, or after a poll: on with
\* the geofence step or the finally block, to the next call of the branch,
\* or to the end of the cycle
AfterCall(at, rest) ==
  IF at \in {"gates", "exited"} THEN at
  ELSE IF rest = <<>> THEN "sleep"
  ELSE "calls"

\* lines 814, 821, 930-943 and their like, 1027, 1033, 1048: the next call
\* of the geofence step, of the branch or of the finally block is made. A
\* request to the vehicle returns, or the loop ends in it; the poll
\* that ends set_start_charging and set_stop_charging is part of the call,
\* or is taken read by read (stepwise). A call of set_inverter_mode connects
\* (line 606) and, for idle, reads storage_control_mode (line 619), either
\* of which can raise; its writes follow one by one. The step-by-step view
\* keeps the mode the inverter was found in
Call(stepwise) ==
  /\ pc \in {"gates", "calls", "exited"}
  /\ todo # <<>>
  /\ step = ""
  /\ Head(todo).cmd \notin {"close_database", "inverter_disconnect"}
  /\ LET c == Head(todo)
         issued == cmds \o <<c>>
     IN IF c.cmd \in InverterCommands
        THEN \/ /\ cmds' = issued
                /\ step' = FirstWrite(c.cmd, inverter_mode)
                /\ written' = "writing"
                /\ mode_before_idle' =
                     IF stepwise /\ c.cmd = "inverter_idle"
                        /\ inverter_mode # IdleMode
                     THEN inverter_mode ELSE mode_before_idle
                /\ UNCHANGED <<pc, prices, planvars, config, poll, todo, hour,
                               car_away, charge_needed, inverter_mode, cardata,
                               level, events, outcome, status, prev_needed,
                               prev_away>>
             \/ Raise("inverter_failure", issued, "refused")
        ELSE \E e \in CallEnds(c.cmd, ~stepwise) :
               CASE e = "done" ->
                      /\ cmds' = issued
                      /\ todo' = Tail(todo)
                      /\ pc' = IF stepwise /\ (StartIssued(<<c>>) \/ StopIssued(<<c>>))
                               THEN "poll" ELSE AfterCall(pc, Tail(todo))
                      /\ UNCHANGED <<written, prices, planvars, config, poll,
                                     hour, step, car_away, charge_needed,
                                     inverter_mode, mode_before_idle, cardata,
                                     level, events, outcome, status,
                                     prev_needed, prev_away>>
                 [] OTHER -> ExitFrom(e, issued, written)

\* lines 611, 612, 622, 626: the running call of set_inverter_mode writes
\* its next register. The inverter takes the write, and the call goes on
\* (after sleep(2) in the call for idle) or is over; or it refuses the
\* write, which ends the call or, at line 622, raises out of it
WriteRegister(accepted) ==
  /\ pc \in {"calls", "exited"}
  /\ step \in {"first", "second"}
  /\ LET c == Head(todo).cmd
         k == IF step = "first" THEN 1 ELSE 2
         next == AfterWrite(c, step)
         over == ~accepted \/ next = ""
     IN IF ~accepted /\ WriteRaises(c, step)
        THEN Raise("inverter_failure", cmds, "refused")
        ELSE /\ inverter_mode' =
                  IF accepted
                  THEN WithRegister(inverter_mode, k,
                                    RegisterWritten(c, stored_battery_mode, k))
                  ELSE inverter_mode
             /\ step' = IF over THEN "" ELSE next
             /\ todo' = IF over THEN Tail(todo) ELSE todo
             /\ pc' = IF over THEN AfterCall(pc, Tail(todo)) ELSE pc
             /\ written' = IF ~accepted THEN "refused"
                           ELSE IF over THEN Completed(c, written)
                           ELSE written
             /\ UNCHANGED <<prices, planvars, config, poll, hour, car_away,
                            charge_needed, mode_before_idle, observed>>

\* lines 631-639: after sleep(2) the call for idle reads rc_cmd_mode back.
\* The read raises or gives idle, and the call is over; or it gives another
\* value (the inverter was written from outside meanwhile) and the logging
\* call of line 639, with one format argument too many, raises
ReadBack ==
  /\ pc = "calls"
  /\ step = "readback"
  /\ \/ /\ step' = ""
        /\ todo' = Tail(todo)
        /\ pc' = AfterCall(pc, Tail(todo))
        /\ written' = Completed(Head(todo).cmd, written)
        /\ UNCHANGED <<prices, planvars, config, poll, hour, car_away,
                       charge_needed, inverter_mode, mode_before_idle,
                       observed>>
     \/ /\ inverter_mode[2] # RC_CMD_IDLE
        /\ ExitFrom("readback_failure", cmds, written)

\* lines 564-575 and 589-598: one read of the poll that ends
\* set_start_charging, and with it the charging branch, or of the poll that
\* ends set_stop_charging, after which the home battery is released. The
\* read gives a current or none, or raises and the loop ends, or never
\* returns: requests.get of line 386 has no timeout
PollRead(r) ==
  /\ pc = "poll"
  /\ step = ""
  /\ reads < POLL_READS
  /\ \/ /\ reads' = reads + 1
        /\ reading' = r
        /\ pc' = IF (IF outcome = "no_window" THEN StopPollOver(reads + 1, r)
                     ELSE PollOver(reads + 1, r))
                 THEN AfterCall(pc, todo) ELSE "poll"
        /\ UNCHANGED <<written, prices, planvars, config, position, car_away,
                       charge_needed, inverter_mode, mode_before_idle, observed>>
     \/ ExitFrom("poll_failure", cmds, written)
     \/ /\ reads' = reads + 1
        /\ step' = "hung"
        /\ UNCHANGED <<written, pc, prices, planvars, config, reading, todo,
                       hour, car_away, charge_needed, inverter_mode,
                       mode_before_idle, observed>>

\* lines 749-768: the cycle is over, the loop sleeps CHECK_LOOP_SLEEP_TIME
\* and the record of the cycle is closed. The locals of the cycle stay as
\* they are (stepwise), or are dropped here: they are dead, each is assigned
\* anew before its next use
Sleep(stepwise) ==
  /\ pc = "sleep"
  /\ pc' = "read"
  /\ IF stepwise
     THEN UNCHANGED <<prices, cardata, level, events, status>>
     ELSE /\ prices' = <<>>
          /\ cardata' = NoCardata
          /\ level' = ""
          /\ events' = <<>>
          /\ status' = ""
  /\ outcome' = "none"
  /\ cmds' = <<>>
  /\ prev_needed' = charge_needed
  /\ prev_away' = car_away
  /\ reads' = 0
  /\ reading' = NoReading
  /\ written' = "none"
  /\ hour' = 0
  /\ UNCHANGED <<planvars, config, todo, step, car_away, charge_needed,
                 inverter_mode, mode_before_idle>>

\* the process runs: it is in its loop or in its finally block
Running == pc # "start" /\ (pc = "exited" => todo # <<>>)

\* the inverter is a device of its own: its owner or its own schedule can
\* put it into another mode at any time, between two cycles, while a cycle
\* runs or waits, and between two writes of set_inverter_mode; what the
\* cycle wrote is then overwritten
ExternalModeChange(m) ==
  /\ Running
  /\ inverter_host
  /\ m # inverter_mode
  /\ inverter_mode' = m
  /\ written' = IF written = "none" THEN "none" ELSE "overwritten"
  /\ UNCHANGED <<prices, pc, planvars, config, poll, position, car_away,
                 charge_needed, mode_before_idle, observed>>

\* the loop is left where it stands, inside a call or between two
Exit(cause) == ExitFrom(cause, cmds, Cut(written, step))

\* lines 1038-1039: SIGINT arrives, wherever the loop is
Interrupt ==
  /\ pc \notin {"start", "exited"}
  /\ Exit("interrupt")

\* an error no handler of the cycle catches: the exception leaves the loop
\* for the finally block
Failure(cause) ==
  /\ pc = FailurePoint(cause)
  /\ cause = "trip_failure" => google
  /\ Exit(cause)

\* lines 1041-1044: the finally block closes the database and its cursor;
\* a close that raises ends the process before the inverter is restored
CloseDatabase ==
  /\ pc = "exited"
  /\ todo # <<>>
  /\ Head(todo).cmd = "close_database"
  /\ \/ /\ todo' = Tail(todo)
        /\ UNCHANGED <<written, pc, prices, planvars, config, poll, hour,
                       step, car_away, charge_needed, inverter_mode,
                       mode_before_idle, observed>>
     \/ EndProcess("close_failure", cmds, written)

\* line 1049: set_inverter_mode has returned, with its writes taken or one
\* of them refused, and the finally block disconnects from the inverter,
\* which can still be written from outside until then; the process ends,
\* also when the disconnect raises
Disconnect ==
  /\ pc = "exited"
  /\ todo # <<>>
  /\ step = ""
  /\ Head(todo).cmd = "inverter_disconnect"
  /\ \/ /\ todo' = Tail(todo)
        /\ UNCHANGED <<written, pc, prices, planvars, config, poll, hour,
                       step, car_away, charge_needed, inverter_mode,
                       mode_before_idle, observed>>
     \/ EndProcess("inverter_failure", cmds, written)

\* lines 1040-1049: SIGINT arrives again while the finally block runs:
\* KeyboardInterrupt is raised in it and the process ends at once
InterruptFinally ==
  /\ pc = "exited"
  /\ todo # <<>>
  /\ EndProcess("interrupt", cmds, Cut(written, step))

\* one step of the polling loop, its inputs drawn from the given sets; the
\* step-by-step view keeps the limit the vehicle was sent last
CycleStep(snapshots, vectors, levels, lists, stepwise) ==
  /\ \/ \E cd \in snapshots : ReadVehicle(cd)
     \/ CarAway
     \/ CableOut
     \/ UserOverride
     \/ GatesPassed
     \/ \E pv \in vectors, lv \in levels : FetchPrices(pv, lv)
     \/ \E evs \in lists : PlanCycle(evs)
     \/ \E st \in Statuses, h \in ClockHours : ChargeBranch(st, h)
     \/ \E h \in ClockHours : NoWindow(h)
     \/ Call(stepwise)
     \/ \E accepted \in BOOLEAN : WriteRegister(accepted)
     \/ ReadBack
     \/ Sleep(stepwise)
     \/ \E m \in InverterModes : ExternalModeChange(m)
     \/ Interrupt
     \/ \E cause \in Failures : Failure(cause)
     \/ CloseDatabase
     \/ Disconnect
     \/ InterruptFinally
  /\ commanded' = (IF stepwise THEN LastLimit(cmds', commanded) ELSE commanded)

CycleNext ==
  CycleStep(Snapshots, CyclePriceVectors, CycleLevelVectors, CycleEventLists,
            FALSE)

CycleSpec == CycleInit /\ [][CycleNext]_vars

\* The polling loop step by step: the confirmation poll read by read and
\* the locals of a cycle kept until the code assigns them anew, for fewer
\* snapshots, prices and events
LoopSnapshots ==
  {cd \in Snapshots : cd.battery_level \in {20, 99} /\ cd.battery_limit \in {50, 60}}
LoopPriceVectors == {[i \in 1..NumSlots |-> 5]}
LoopLevelVectors == {[i \in 1..NumSlots |-> "NORMAL"]}
LoopEventLists == {<<>>, <<FarEvent>>}

LoopNext ==
  \/ CycleStep(LoopSnapshots, LoopPriceVectors, LoopLevelVectors,
               LoopEventLists, TRUE)
  \/ \E r \in PollReadings : PollRead(r) /\ UNCHANGED commanded

LoopSpec == CycleInit /\ [][LoopNext]_vars

\* the process is scheduled: the sleeps of the loop (sleep(10) of the poll,
\* sleep(CHECK_LOOP_SLEEP_TIME) of the loop head) return, the poll then
\* makes its next request and the loop begins its next cycle. Whether a
\* request returns is not assumed: a read of the poll can hang
FairLoopSpec ==
  /\ LoopSpec
  /\ WF_vars(\E r \in PollReadings : PollRead(r) /\ UNCHANGED commanded)
  /\ WF_vars(Sleep(TRUE) /\ UNCHANGED commanded)

-----------------------------------------------------------------------------
(* The start of the process *)

\* lines 683-734: the tests of main before its loop, in their order: how the
\* start ends
\* (faulty variant: an inverter that cannot be read does not stop the start)
StartupOutcomeInverterSkipped(found, host) ==
  IF ~found.vin THEN "no_vin"
  ELSE IF ~found.db_ok THEN "no_database"
  ELSE IF ~found.in_tessie \/ ~found.in_store THEN "no_vehicle"
  ELSE "entered"
StartupOutcome(found, host) ==
  IF ~found.vin THEN "no_vin"
  ELSE IF host /\ ~found.inverter_ok THEN "no_inverter"
  ELSE IF ~found.db_ok THEN "no_database"
  ELSE IF ~found.in_tessie \/ ~found.in_store THEN "no_vehicle"
  ELSE "entered"

\* lines 710-713: the pairs the start can store. rc_cmd_mode is read after
\* storage_control_mode: the second register is the one the inverter has
\* now, the first is the one it had at the first read, which an outside
\* write between the two reads has replaced
StoredPairs(mode) == {<<s, mode[2]>> : s \in StorageModes}

\* the process is started: the configuration names an inverter or not, the
\* inverter is in some mode, stored_battery_mode has the default of line 91
StartInit ==
  /\ prices = <<>>
  /\ pc = "start"
  /\ charge_left = 0
  /\ nevents = 0
  /\ last_start = 0
  /\ last_depart = 0
  /\ warning = FALSE
  /\ last_charge = 0
  /\ call = NoCall
  /\ before = <<>>
  /\ mid = <<>>
  /\ car_away = FALSE
  /\ charge_needed = CHARGE_MINIMUM
  /\ google \in BOOLEAN
  /\ inverter_host \in BOOLEAN
  /\ stored_battery_mode = DefaultBatteryMode
  /\ inverter_mode \in
       (IF inverter_host THEN InverterModes ELSE {DefaultBatteryMode})
  /\ mode_before_idle = inverter_mode
  /\ cardata = NoCardata
  /\ level = ""
  /\ events = <<>>
  /\ outcome = "none"
  /\ status = ""
  /\ cmds = <<>>
  /\ prev_needed = CHARGE_MINIMUM
  /\ prev_away = FALSE
  /\ reads = 0
  /\ reading = NoReading
  /\ startup \in StartupInputs
  /\ commanded = 0
  /\ written = "none"
  /\ todo = <<>>
  /\ hour = 0
  /\ step = ""

\* lines 683-745: main up to its loop. The registers of a configured
\* inverter that can be read are stored (line 713) before the database is
\* opened and the vehicle looked up; the disconnect of line 714 can still
\* raise after they are stored, which ends the start as an inverter that
\* cannot be read does. A failed test ends the process with exit(), the
\* first telemetry read (line 737) can raise as the one of line 787 does,
\* and SIGINT can arrive at any line: the try of line 748 is not entered,
\* its finally block does not run. Otherwise the loop is entered. While the
\* start waits for the inverter, the database and Tessie, the inverter can
\* be written from outside: inverter_mode is the mode at the read of line
\* 711, inverter_mode' the one at the end of the start
Startup ==
  /\ pc = "start"
  /\ LET result == StartupOutcome(startup, inverter_host)
         reached == inverter_host /\ startup.vin
         pairs == IF reached /\ startup.inverter_ok
                 THEN StoredPairs(inverter_mode)
                 ELSE {stored_battery_mode}
         any == IF reached
                THEN StoredPairs(inverter_mode) \cup {stored_battery_mode}
                ELSE {stored_battery_mode}
     IN /\ \/ /\ result = "entered"
              /\ pc' = "read"
              /\ stored_battery_mode' \in pairs
              /\ UNCHANGED outcome
           \/ /\ pc' = "exited"
              /\ outcome' = (IF result = "entered" THEN "telemetry_failure"
                             ELSE result)
              /\ stored_battery_mode' \in
                   (IF result = "no_inverter" THEN any ELSE pairs)
           \/ /\ pc' = "exited"
              /\ outcome' = "interrupt"
              /\ stored_battery_mode' \in any
        /\ inverter_mode' \in
             (IF reached THEN InverterModes \cup {inverter_mode}
              ELSE {inverter_mode})
  /\ UNCHANGED <<prices, planvars, poll, position, google, inverter_host,
                 startup, commanded, written, car_away, charge_needed,
                 mode_before_idle, cardata, level, events, status, cmds,
                 prev_needed, prev_away>>

StartNext ==
  \/ Startup
  \/ LoopNext

StartSpec == StartInit /\ [][StartNext]_vars

-----------------------------------------------------------------------------
(* Vocabulary of the claims about a cycle *)

\* the cycle has run to its end and the loop is about to sleep
CycleEnded == pc = "sleep"
\* the snapshot of the cycle passes the home, cable and override gates
PassedGates ==
  /\ CycleEnded
  /\ cardata.at_home
  /\ cardata.charge_port = "Engaged"
  /\ cardata.battery_limit \in
       {CHARGE_DEFAULT, CHARGE_CHEAP, CHARGE_VERY_CHEAP, prev_needed}
\* the slot that contains now is RESERVED
CurrentSlotReserved == ChargeSlot(prices, hour)
\* the conditions of the four charging branches
EventCondition ==
  cardata.battery_level < charge_needed /\ CurrentSlotReserved
MinimumCondition == cardata.battery_level < CHARGE_MINIMUM
CheapCondition == level = "CHEAP" /\ cardata.battery_level < CHARGE_CHEAP
VeryCheapCondition ==
  level = "VERY_CHEAP" /\ cardata.battery_level < CHARGE_VERY_CHEAP
\* the command c was issued in the cycle
Issued(c) == \E i \in 1..Len(cmds) : cmds[i].cmd = c
\* the limits set after the prices were fetched, which is by the policy
PolicyLimits ==
  {cmds[i].arg : i \in {k \in 1..Len(cmds) :
      /\ cmds[k].cmd = "set_charge_limit"
      /\ \E j \in 1..(k - 1) : cmds[j].cmd = "get_electricity_prices"}}
\* the cycle began with the limit reset of the geofence step
GeofenceReset ==
  cmds # <<>> /\ cmds[1] = Command("set_charge_limit", CHARGE_DEFAULT)
\* the cycle charges to the limit l: the limit is set if the snapshot has
\* another one, the charge is started if the snapshot does not charge
ChargesTo(l) ==
  /\ PolicyLimits = (IF cardata.battery_limit # l THEN {l} ELSE {})
  /\ Issued("set_start_charging") <=> cardata.charge_rate = 0
  /\ ~Issued("set_stop_charging")
\* the inverter has its registers as the latest call of the cycle wrote
\* them: it took the writes of a call for idle, or of one for active, and
\* nobody changed it since
IdleHeld == written = "idle"
ActiveHeld == written = "active"
\* the home battery, if there is one, is set to idle: the call is made and
\* the registers are Remote Control and idle when the inverter took it
HomeBatteryIdle ==
  inverter_host =>
    /\ Issued("inverter_idle")
    /\ written # "none"
    /\ IdleHeld => inverter_mode = <<REMOTE_CONTROL_MODE, RC_CMD_IDLE>>
\* what the cycle did is the work of one branch: a charging branch neither
\* stops the charge nor releases the home battery, the no-window branch
\* neither wakes, sets a limit, starts nor idles, and nothing is sent twice
OneBranchActs ==
  /\ IF outcome = "no_window"
     THEN /\ ~Issued("wake_up")
          /\ ~Issued("set_start_charging")
          /\ ~Issued("inverter_idle")
          /\ PolicyLimits = {}
     ELSE /\ ~Issued("set_stop_charging")
          /\ ~Issued("inverter_active")
  /\ \A i, j \in 1..Len(cmds) : cmds[i].cmd = cmds[j].cmd /\ i < j =>
        i = 1 /\ GeofenceReset

\* C11: in a cycle that passes the three gates exactly one branch of the
\* policy runs, the first of event-driven, minimum floor, cheap, very
\* cheap, no-window whose condition holds; when the event-driven and the
\* minimum-floor condition both hold the limit commanded is charge_needed
C11_FirstBranchWins ==
  PassedGates =>
    /\ outcome = (IF EventCondition THEN "event"
                  ELSE IF MinimumCondition THEN "minimum"
                  ELSE IF CheapCondition THEN "cheap"
                  ELSE IF VeryCheapCondition THEN "very_cheap"
                  ELSE "no_window")
    /\ OneBranchActs
    /\ (EventCondition /\ MinimumCondition) => ChargesTo(charge_needed)

\* both conditions hold, charge_needed is above the minimum and is the
\* limit that was set
C11_Witness ==
  /\ PassedGates
  /\ EventCondition
  /\ MinimumCondition
  /\ charge_needed > CHARGE_MINIMUM
  /\ PolicyLimits = {charge_needed}

\* C12: in a cycle that passes the gates with the battery below
\* charge_needed and the current slot RESERVED, the car is woken exactly
\* when it is not online, the home battery is set to idle, the limit is
\* set to charge_needed exactly when the snapshot limit differs, and
\* the charge is started exactly when the snapshot charge rate is zero
C12_EventDrivenCharge ==
  (PassedGates /\ EventCondition) =>
    /\ Issued("wake_up") <=> status # "online"
    /\ HomeBatteryIdle
    /\ PolicyLimits =
         (IF cardata.battery_limit # charge_needed THEN {charge_needed} ELSE {})
    /\ Issued("set_start_charging") <=> cardata.charge_rate = 0

\* battery 40, needed 60, slot reserved: charge to 60% with the home
\* battery idle
C12_Witness ==
  /\ PassedGates
  /\ EventCondition
  /\ cardata.battery_level = 40
  /\ charge_needed = 60
  /\ inverter_host
  /\ IdleHeld
  /\ inverter_mode = <<REMOTE_CONTROL_MODE, RC_CMD_IDLE>>
  /\ cmds = <<Command("get_electricity_prices", 0),
              Command("get_calendar_events", 0),
              Command("inverter_idle", 0),
              Command("set_charge_limit", 60),
              Command("set_start_charging", 0)>>

\* C13: in a cycle that passes the gates, when the event-driven branch does
\* not apply and the battery is below CHARGE_MINIMUM, the policy charges
\* to CHARGE_MINIMUM (limit set if different, charge started if not
\* charging, home battery idled), whatever the price level and the
\* decision of the current slot, also without any event
C13_MinimumFloor ==
  (PassedGates /\ ~EventCondition /\ MinimumCondition) =>
    /\ outcome = "minimum"
    /\ ChargesTo(CHARGE_MINIMUM)
    /\ HomeBatteryIdle

\* a NORMAL price and a current slot that is BLOCKED, the hour of the
\* departure having begun: the car is started, its limit set to
\* CHARGE_MINIMUM and the home battery idle
C13_Witness ==
  /\ PassedGates
  /\ MinimumCondition
  /\ events # <<>>
  /\ level = "NORMAL"
  /\ prices[hour + 1].charge = "False"
  /\ outcome = "minimum"
  /\ inverter_host
  /\ IdleHeld
  /\ inverter_mode = IdleMode
  /\ PolicyLimits = {CHARGE_MINIMUM}
  /\ Issued("set_start_charging")

\* the level of the slot that contains now, and the conditions of the two
\* price tiers on it
CurrentLevel == prices[hour + 1].level
CurrentCheap ==
  CurrentLevel = "CHEAP" /\ cardata.battery_level < CHARGE_CHEAP
CurrentVeryCheap ==
  CurrentLevel = "VERY_CHEAP" /\ cardata.battery_level < CHARGE_VERY_CHEAP

\* C14: when neither the event-driven nor the minimum-floor branch applies,
\* the policy charges to CHARGE_CHEAP exactly when the level of the current
\* hour is CHEAP and the battery is below CHARGE_CHEAP, or else to
\* CHARGE_VERY_CHEAP exactly when that level is VERY_CHEAP and the battery
\* below CHARGE_VERY_CHEAP; in every other case no charge is started
C14_PriceTiers ==
  (PassedGates /\ ~EventCondition /\ ~MinimumCondition) =>
    IF CurrentCheap
    THEN outcome = "cheap" /\ ChargesTo(CHARGE_CHEAP)
    ELSE IF CurrentVeryCheap
    THEN outcome = "very_cheap" /\ ChargesTo(CHARGE_VERY_CHEAP)
    ELSE /\ ~Issued("set_start_charging")
         /\ ~Issued("wake_up")
         /\ PolicyLimits = {}

\* C15 as stated: when no charging branch applies in a cycle that passes
\* the gates, the charge is stopped exactly when the snapshot charge rate
\* is not zero, and the home battery is put back into the mode it was in
\* before the policy last set it to idle
C15_RestoresModeBeforeIdle ==
  (PassedGates /\ ~EventCondition /\ ~MinimumCondition
     /\ ~CheapCondition /\ ~VeryCheapCondition) =>
    /\ Issued("set_stop_charging") <=> cardata.charge_rate > 0
    /\ (inverter_host /\ ActiveHeld) => inverter_mode = mode_before_idle

\* C15: when no charging branch applies in a cycle that passes the gates,
\* the charge is stopped exactly when the snapshot charge rate is not
\* zero, and the home battery is put into the mode that was read when the
\* process started
C15_RestoresStartupMode ==
  (PassedGates /\ ~EventCondition /\ ~MinimumCondition
     /\ ~CheapCondition /\ ~VeryCheapCondition) =>
    /\ Issued("set_stop_charging") <=> cardata.charge_rate > 0
    /\ inverter_host =>
         /\ Issued("inverter_active")
         /\ written # "none"
         /\ ActiveHeld => inverter_mode = stored_battery_mode

\* a no-window cycle that stops the charge and writes the start-up mode,
\* which is not the mode the policy found when it last idled the battery
C15_Witness ==
  /\ PassedGates
  /\ outcome = "no_window"
  /\ Issued("set_stop_charging")
  /\ inverter_host
  /\ ActiveHeld
  /\ inverter_mode = stored_battery_mode
  /\ mode_before_idle # stored_battery_mode

\* the cycle sent nothing to the car and wrote nothing to the inverter
NoAction ==
  /\ ~Issued("wake_up")
  /\ ~Issued("set_charge_limit")
  /\ ~Issued("set_start_charging")
  /\ ~Issued("set_stop_charging")
  /\ ~Issued("inverter_idle")
  /\ ~Issued("inverter_active")
\* the at-home status of the snapshot is not what car_away remembered
GeofenceCrossed == cardata.at_home = prev_away
\* the cycle did nothing but the limit reset of the geofence step, and that
\* exactly when the geofence was crossed
OnlyGeofenceReset ==
  cmds = (IF GeofenceCrossed
          THEN <<Command("set_charge_limit", CHARGE_DEFAULT)>> ELSE <<>>)

\* C16 as stated: a cycle whose snapshot has the cable not connected sends
\* no wake, limit, start or stop and writes no home-battery mode,
\* whatever the rest of the state
C16_NoActionCableOut ==
  (CycleEnded /\ cardata.charge_port # "Engaged") => NoAction

\* C16: a cycle whose snapshot has the cable not connected sends no wake,
\* start or stop and writes no home-battery mode; the one command it can
\* send is the geofence step's set_charge_limit(CHARGE_DEFAULT), sent
\* exactly when the at-home status differs from car_away
C16_CableOutOnlyGeofence ==
  (CycleEnded /\ cardata.charge_port # "Engaged") => OnlyGeofenceReset

\* the car came home with a low battery and the cable out: the limit reset
\* is all the cycle does
C16_Witness ==
  /\ CycleEnded
  /\ cardata.charge_port # "Engaged"
  /\ cardata.at_home
  /\ prev_away
  /\ cardata.battery_level < CHARGE_MINIMUM
  /\ cmds = <<Command("set_charge_limit", CHARGE_DEFAULT)>>

\* C17: over the cycles of a run, a cycle with the car away sends no wake,
\* start, stop or home-battery command; the geofence step sends
\* set_charge_limit(CHARGE_DEFAULT) exactly in the cycles whose at-home
\* status differs from car_away; and after the geofence step car_away
\* says whether the car was away in this cycle
C17_Geofence ==
  pc \in {"plan", "policy", "sleep"} =>
    /\ ~cardata.at_home =>
         /\ ~Issued("wake_up")
         /\ ~Issued("set_start_charging")
         /\ ~Issued("set_stop_charging")
         /\ ~Issued("inverter_idle")
         /\ ~Issued("inverter_active")
    /\ GeofenceReset <=> GeofenceCrossed
    /\ car_away = ~cardata.at_home

\* the car was away in an earlier cycle and is home in this one: the limit
\* is reset and car_away is False again
C17_Witness ==
  /\ CycleEnded
  /\ prev_away
  /\ cardata.at_home
  /\ GeofenceReset
  /\ ~car_away

\* at home and connected, the limit of the snapshot is none of the limits
\* the script sets itself
OverrideSnapshot ==
  /\ CycleEnded
  /\ cardata.at_home
  /\ cardata.charge_port = "Engaged"
  /\ cardata.battery_limit \notin
       {CHARGE_DEFAULT, CHARGE_CHEAP, CHARGE_VERY_CHEAP, prev_needed}
\* the prices were not fetched in this cycle
NoPricesFetched == ~Issued("get_electricity_prices") /\ prices = <<>>

\* C18 as stated: with the car at home, connected and a limit that is none
\* of CHARGE_DEFAULT, CHARGE_CHEAP, CHARGE_VERY_CHEAP and charge_needed,
\* the cycle fetches no prices, sends no command, writes no home-battery
\* mode and leaves charge_needed as it was
C18_NoActionOnOverride ==
  OverrideSnapshot =>
    /\ NoPricesFetched
    /\ NoAction
    /\ charge_needed = prev_needed

\* C18: with the car at home, connected and a limit that is none of
\* CHARGE_DEFAULT, CHARGE_CHEAP, CHARGE_VERY_CHEAP and charge_needed, the
\* cycle fetches no prices, writes no home-battery mode, leaves
\* charge_needed as it was and sends no command but the geofence step's
\* set_charge_limit(CHARGE_DEFAULT) when the car has just come home
C18_OverrideOnlyGeofence ==
  OverrideSnapshot =>
    /\ NoPricesFetched
    /\ OnlyGeofenceReset
    /\ charge_needed = prev_needed

\* the user's limit of 70 is found in the cycle the car came home in, with
\* a charge_needed above the minimum: the limit reset is all that is sent
C18_Witness ==
  /\ OverrideSnapshot
  /\ cardata.battery_limit = 70
  /\ prev_away
  /\ prev_needed > CHARGE_MINIMUM
  /\ cmds = <<Command("set_charge_limit", CHARGE_DEFAULT)>>

\* the planning of the cycle is done
Planned == pc \in {"policy", "sleep"} /\ Issued("get_electricity_prices")
\* no slot of the cycle's list carries a decision
AllUndecided == \A i \in 1..Len(prices) : prices[i].charge = "None"

\* C19 as stated: when the planning of a cycle has no events, for want of
\* calendar access or because the calendar returned none, charge_needed is
\* afterwards what it was in the cycle before and every slot is UNDECIDED
C19_StickyWithoutEvents ==
  (Planned /\ events = <<>>) =>
    /\ charge_needed = prev_needed
    /\ AllUndecided

\* C19: when the planning of a cycle has no events, every slot is still
\* UNDECIDED; without calendar access charge_needed is what it was in the
\* cycle before, with calendar access and no event returned it is
\* CHARGE_MINIMUM
C19_WithoutEvents ==
  (Planned /\ events = <<>>) =>
    /\ charge_needed = (IF google THEN CHARGE_MINIMUM ELSE prev_needed)
    /\ AllUndecided

\* the calendar returns no event in a cycle that began with a charge_needed
\* above the minimum: charge_needed falls back to CHARGE_MINIMUM
C19_Witness ==
  /\ Planned
  /\ google
  /\ events = <<>>
  /\ prev_needed > CHARGE_MINIMUM
  /\ charge_needed = CHARGE_MINIMUM
  /\ AllUndecided

\* C20: in every state of the polling loop charge_needed is at least
\* CHARGE_MINIMUM and at most 100
C20_ChargeNeededRange ==
  CHARGE_MINIMUM <= charge_needed /\ charge_needed <= 100

\* the events of the cycle ask for more than the battery holds:
\* charge_needed is 100
C20_Witness ==
  /\ Planned
  /\ kwh_needed_mWh(events) > BATTERY_CAPACITY * 1000000
  /\ charge_needed = 100

-----------------------------------------------------------------------------
(* Claims about the planning loop over the events of a cycle *)

\* the step of the loop that hands an event to update_charge
EventTaken == pc = "events" /\ pc' = "sweep"

\* C21: the events of a cycle are handed to update_charge in the order of
\* their departure (start minus travel time): an event taken after
\* another one does not depart before it
C21_DepartureOrder ==
  [][(EventTaken /\ nevents >= 1) => last_depart <= last_depart']_vars


-----------------------------------------------------------------------------
(* The pool of uncommitted energy, also for a car that comes home nearly empty *)

\* battery levels below CHARGE_RETURNING: the pool of line 868 starts negative
LowBatteryLevels == {5}

PoolInit ==
  /\ prices \in {FreshPrices(pv) : pv \in CyclePriceVectors}
  /\ charge_left \in {InitialChargeLeft(b) : b \in BatteryLevels \cup LowBatteryLevels}
  /\ pc = "events"
  /\ nevents = 0
  /\ last_start = 0
  /\ last_depart = 0
  /\ warning = FALSE
  /\ last_charge = 0
  /\ call = NoCall
  /\ before = prices
  /\ mid = prices
  /\ CycleAtRest

PoolSpec == PoolInit /\ [][Next]_vars

\* the event just taken is covered by the pool it found
CoveredByPool == last_charge' <= charge_left

\* the call of the event just taken reserved nothing and blocked the
\* undecided slots of its away window
NothingReservedAwayBlocked ==
  /\ call'.hours_needed = 0
  /\ \A i \in 1..Len(prices') :
       /\ prices'[i].charge = "True" => prices[i].charge = "True"
       /\ ( /\ prices[i].charge = "None"
            /\ i - 1 >= Max(call'.hours_budget, 1) + 1
            /\ i - 1 < Max(call'.hours_budget, 1) + call'.hours_duration + 1 )
          => prices'[i].charge = "False"

\* C22 as stated: an event lowers the pool to max(pool - energy, 0); the
\* pool never increases and is never negative after an event; an event the
\* pool covers needs no hours, reserves nothing and still blocks its away
\* window
C22_PoolNeverIncreases ==
  [][EventTaken =>
       /\ charge_left' = Max(charge_left - last_charge', 0)
       /\ charge_left' <= charge_left
       /\ charge_left' >= 0
       /\ CoveredByPool => NothingReservedAwayBlocked]_vars

\* C22: an event lowers the pool to max(pool - energy, 0); the pool is never
\* negative after an event and never increases unless it was negative (a
\* battery below the returning charge), when it becomes 0; an event the pool
\* covers needs no hours, reserves nothing and still blocks its away window
C22_PoolLowered ==
  [][EventTaken =>
       /\ charge_left' = Max(charge_left - last_charge', 0)
       /\ charge_left' <= Max(charge_left, 0)
       /\ charge_left' >= 0
       /\ CoveredByPool => NothingReservedAwayBlocked]_vars

\* an event covered by the pool has been taken: its call reserved nothing,
\* blocked a slot and left energy in the pool
C22_Witness ==
  /\ Called
  /\ last_charge > 0
  /\ call.hours_needed = 0
  /\ NewlyReserved = {}
  /\ NewlyBlocked # {}
  /\ charge_left > 0


-----------------------------------------------------------------------------
(* Claims about the sweep after an event that empties the pool *)

\* the step of the loop after update_charge: the test of line 899 and the sweep
AfterEvent == pc = "sweep" /\ pc' = "events"

\* slot i lies before the first BLOCKED slot of the list
BeforeFirstBlocked(i) == \A j \in 1..i : prices[j].charge # "False"

\* C23: when the pool is empty after an event, the sweep turns every
\* UNDECIDED slot from the first slot up to the first BLOCKED slot into
\* BLOCKED, leaves the RESERVED slots it passes RESERVED and alters no slot
\* at or after that first BLOCKED slot
C23_SweepToFirstBlocked ==
  [][(AfterEvent /\ charge_left = 0) =>
       /\ Len(prices') = Len(prices)
       /\ \A i \in Slots :
            /\ (BeforeFirstBlocked(i) /\ prices[i].charge = "None")
                 => prices'[i] = [prices[i] EXCEPT !.charge = "False"]
            /\ (BeforeFirstBlocked(i) /\ prices[i].charge = "True")
                 => prices'[i] = prices[i]
            /\ ~BeforeFirstBlocked(i) => prices'[i] = prices[i]]_vars

\* a sweep has run after an event that emptied the pool: it blocked an
\* undecided slot outside the away window of the event, passed a RESERVED
\* slot and left an UNDECIDED slot behind the away window alone
C23_Witness ==
  /\ pc = "events"
  /\ nevents = 1
  /\ charge_left = 0
  /\ \E i, j, b, k \in Slots :
       /\ i < b /\ j < b /\ b < k
       /\ before[i].charge = "None" /\ ~InAwayRange(i) /\ prices[i].charge = "False"
       /\ prices[j].charge = "True"
       /\ InAwayRange(b) /\ prices[b].charge = "False"
       /\ prices[k].charge = "None"


-----------------------------------------------------------------------------
(* Claims about an event that cannot be charged in time *)

\* the event taken last has less budget than it needs hours
BudgetShort == Called /\ call.hours_budget < call.hours_needed

\* C24 as stated: an event with less budget than hours needed gets a
\* warning, its call reserves every undecided slot of its deadline window
\* and the loop goes on to the remaining events
C24_WarnedWindowReserved ==
  [][BudgetShort =>
       /\ warning
       /\ DeadlineWindow \subseteq NewlyReserved
       /\ pc' = "events"]_vars

\* C24: an event with less budget than hours needed gets a warning and the
\* loop goes on to the remaining events; its call reserves every undecided
\* slot of its deadline window when it needs an hour or more, and no slot
\* when it is overdue and needs none
C24_WarnedBestEffort ==
  [][BudgetShort =>
       /\ warning
       /\ call.hours_needed >= 1 => DeadlineWindow \subseteq NewlyReserved
       /\ call.hours_needed = 0 => NewlyReserved = {}
       /\ pc' = "events"]_vars

\* the second event of a cycle has a budget of two hours or more, needs
\* more hours than that, was warned about and had its whole deadline window
\* reserved
C24_Witness ==
  /\ BudgetShort
  /\ nevents = 2
  /\ warning
  /\ call.hours_budget >= 2
  /\ Cardinality(DeadlineWindow) >= 2
  /\ DeadlineWindow \subseteq NewlyReserved


-----------------------------------------------------------------------------
(* Claims about leaving the polling loop and about failures inside a cycle *)

\* the step that ends the process after the loop was left
ProcessEnds == pc = "exited" /\ todo # <<>> /\ todo' = <<>>

\* C25: whenever the polling loop is left, by an interrupt or by an error no
\* handler catches, between two calls of a cycle or inside one, the stored
\* mode is written to a configured inverter before the process ends,
\* whichever mode it was in: the call for active is the last thing done,
\* it runs to its end, and the inverter taking its writes and nobody else
\* writing, the registers are the stored pair
C25_RestoredOnExit ==
  [][(ProcessEnds /\ inverter_host) =>
       /\ cmds' # <<>>
       /\ cmds'[Len(cmds')] = Command("inverter_active", 0)
       /\ written' \in {"active", "refused", "overwritten"}
       /\ written' = "active" => inverter_mode' = stored_battery_mode]_vars

\* the price source returned its error sentinel or no row
PriceSourceFails == pc = "plan" /\ outcome' = "price_failure"

\* C26: when the price source returns its empty or error sentinel, the cycle
\* issues no vehicle and no home-battery command and the loop goes on to
\* the next cycle
C26_NoPricesCycleSkipped ==
  [][PriceSourceFails => (pc' = "sleep" /\ cmds' = cmds)]_vars

\* a fetch of the cycle failed: the telemetry, the status or the trips
FetchFails ==
  /\ pc # "exited"
  /\ outcome' \in {"telemetry_failure", "status_failure", "trip_failure"}

\* C27: a failure inside one cycle never ends the process: the loop goes on
\* to its next cycle
C27_FailureSurvived ==
  [][FetchFails => pc' # "exited"]_vars


-----------------------------------------------------------------------------
(* Claims about the confirmation poll of set_start_charging *)

\* the poll of set_start_charging is running, about to make a read
StartPoll == pc = "poll" /\ step = "" /\ outcome # "no_window"
\* a step of the loop while the poll is running, the loop not being left
\* (a step that changes the inverter is its owner's)
PollStep == StartPoll /\ pc' # "exited" /\ inverter_mode' = inverter_mode

\* the poll made all its reads and none reported a charge
PollTimedOut ==
  /\ pc = "sleep"
  /\ outcome # "no_window"
  /\ reads = POLL_READS
  /\ reading \in {NoReading, 0}

\* C28: after a charging branch issued start_charging the poll reads the
\* vehicle at most 10 times and stops at the first read that reports a charge
\* rate above zero: while it runs no read has reported one and fewer than 10
\* reads are made, and every step of it is one more read. The poll always
\* ends; when no read confirmed, the cycle is completed all the same and the
\* loop comes to the read of its next cycle
C28_PollTerminates ==
  /\ [](reads <= 10)
  /\ [](StartPoll => (reads < 10 /\ reading \in {NoReading, 0}))
  /\ [][PollStep => (reads' = reads + 1 /\ pc' \in {"poll", "sleep"})]_vars
  /\ StartPoll ~> (pc \in {"sleep", "exited"})
  /\ PollTimedOut ~> (pc \in {"read", "exited"})


-----------------------------------------------------------------------------
(* Claims about the stored mode of the home battery *)

\* the call of set_inverter_mode(inverter, 'active') that is running, in
\* a cycle or in the finally block, has its write of register k taken
ActiveWriteTaken(k) ==
  /\ pc \in {"calls", "exited"}
  /\ todo # <<>>
  /\ Head(todo).cmd = "inverter_active"
  /\ IF k = 1
     THEN step = "first" /\ step' = "second"
     ELSE step = "second" /\ step' = "" /\ written' \in {"active", "overwritten"}

\* C29: stored_battery_mode is assigned when the process starts, from the
\* two registers as they are read then, and no cycle, no idle write and no
\* restore changes it; every 'active' restore writes this pair to the
\* inverter, register by register, whose registers are this pair when it
\* took both writes and nobody else wrote meanwhile
C29_StoredModeFixed ==
  /\ [][stored_battery_mode' # stored_battery_mode =>
          /\ pc = "start"
          /\ stored_battery_mode' \in StoredPairs(inverter_mode)]_vars
  /\ [][(pc = "start" /\ pc' = "read" /\ inverter_host) =>
          stored_battery_mode' \in StoredPairs(inverter_mode)]_vars
  /\ [][\A k \in {1, 2} : ActiveWriteTaken(k) =>
          inverter_mode' = WithRegister(inverter_mode, k, stored_battery_mode[k])]_vars
  /\ [](ActiveHeld => inverter_mode = stored_battery_mode)

\* the start read the registers while the inverter was put into another
\* mode, and a no-window cycle wrote the pair that was stored, a pair of
\* neither mode
C29_Witness ==
  /\ pc = "sleep"
  /\ outcome = "no_window"
  /\ inverter_host
  /\ stored_battery_mode \notin InverterModes
  /\ ActiveHeld
  /\ inverter_mode = stored_battery_mode


-----------------------------------------------------------------------------
(* Claims about what one cycle hands to the next *)

\* the branch the policy takes on the slot list, the level and the limit
\* of the cycle
BranchOfCycle ==
  PolicyBranch(cardata.battery_level, charge_needed, ChargeSlot(prices, hour), level)

\* what a cycle at its end has decided follows from what this cycle read,
\* from car_away and charge_needed as it found them and from nothing else
DecidedFromThisCycle ==
  LET gate == GateOutcome(cardata, prev_needed)
  IN /\ car_away = ~cardata.at_home
     /\ outcome = (IF gate # "passed" THEN gate ELSE BranchOfCycle)
     /\ charge_needed =
          (IF gate = "passed" /\ google THEN ChargeNeeded(events) ELSE prev_needed)
     /\ gate # "passed" => cmds = GeofenceCommands(cardata.at_home, prev_away)

\* C30: when the planning of a cycle starts every slot is UNDECIDED, so no
\* mark of an earlier cycle is seen; only the price fetch and the planning
\* change the slot list, the policy branches never do; and what a cycle
\* decides follows from its own reads and from car_away and charge_needed,
\* the only decision state one cycle hands to the next
C30_FreshEveryCycle ==
  /\ [](pc = "planning" => (Len(prices) = NumSlots /\ AllUndecided))
  /\ [][(pc \notin {"plan", "planning"} /\ pc' # "exited") => prices' = prices]_vars
  /\ [](CycleEnded => DecidedFromThisCycle)

\* the planning of a cycle starts on an undecided list after an earlier
\* cycle planned an event and ended in a charging branch
C30_Witness ==
  /\ pc = "planning"
  /\ AllUndecided
  /\ events # <<>>
  /\ status # ""
  /\ prev_needed # CHARGE_MINIMUM


-----------------------------------------------------------------------------
(* Claims about the start of the process *)

\* one of the things main needs before its loop is missing
StartupFails ==
  \/ ~startup.vin
  \/ ~startup.in_tessie
  \/ ~startup.in_store
  \/ inverter_host /\ ~startup.inverter_ok
  \/ ~startup.db_ok

\* C31: when the VIN is missing, the car is not found in the Tessie account
\* or in the database, a configured inverter cannot be read or the database
\* cannot be opened, the process ends before its first cycle: the loop is
\* never entered and no vehicle command and no inverter write is issued
C31_LoopAfterStartup ==
  /\ [](StartupFails =>
          /\ pc \in {"start", "exited"}
          /\ cmds = <<>>
          /\ written = "none"
          /\ cardata = NoCardata)
  /\ [][(pc = "start" /\ StartupFails) => pc' = "exited"]_vars
  /\ [][(pc = "start" /\ pc' = "read") => ~StartupFails]_vars

\* the process has ended at its start because the configured inverter, in
\* a mode of its own, could not be read, all else being there
C31_Witness ==
  /\ pc = "exited"
  /\ inverter_host
  /\ ~startup.inverter_ok
  /\ startup.vin /\ startup.db_ok /\ startup.in_tessie /\ startup.in_store
  /\ inverter_mode # DefaultBatteryMode
  /\ cmds = <<>>


-----------------------------------------------------------------------------
(* Claims about the limit the policy itself sent to the vehicle *)

\* the cycle is at its gates and the vehicle, at home and connected, reports
\* the very limit the policy sent last
OwnLimitReported ==
  /\ pc = "gates"
  /\ commanded # 0
  /\ cardata.battery_limit = commanded
  /\ cardata.at_home
  /\ cardata.charge_port = "Engaged"

\* C32: a limit the policy itself has sent is not taken for the user's in a
\* later cycle: when the vehicle reports the limit sent last, the cycle does
\* not end at the override gate, whatever charge_needed has become since
C32_OwnLimitPasses ==
  [][OwnLimitReported => outcome' # "override"]_vars


-----------------------------------------------------------------------------
(* Claims about the cycles that end at a gate *)

\* the cycle ended at the home, cable or override gate
NoOpCycle == CycleEnded /\ outcome \in {"away", "cable", "override"}
\* the cycle ended without one of the four charging branches
NoChargingBranch == NoOpCycle \/ (CycleEnded /\ outcome = "no_window")

\* C33: at the end of every cycle that took no charging branch, the cycles
\* that end at a gate included, a configured inverter is in the mode saved at
\* startup, not in the idle mode an earlier cycle forced
C33_ReleasedWhenNotCharging ==
  (NoChargingBranch /\ inverter_host) =>
    inverter_mode = stored_battery_mode


\* C34: the car is woken only by a cycle that takes one of the four charging
\* branches, and only when the status read in that cycle is not online; a
\* cycle that ends at a gate and the no-window branch never wake it
C34_WokenOnlyToCharge ==
  (pc # "exited" /\ Issued("wake_up")) =>
    /\ outcome \in {"event", "minimum", "cheap", "very_cheap"}
    /\ status # "online"
\* a charging branch has woken a car that was offline
C34_Witness ==
  /\ CycleEnded
  /\ Issued("wake_up")
  /\ status = "offline"
  /\ outcome = "cheap"


-----------------------------------------------------------------------------
(* Claims about the interval between two cycles *)

\* the loop comes to its next telemetry read
NextReadReached == pc # "read" /\ pc' = "read"
\* the step is the sleep of the loop head, which closes the cycle
IntervalSleep == pc = "sleep" /\ cmds' = <<>> /\ outcome' = "none"

\* C35: every cycle but the first is preceded by the interval sleep, whatever
\* the cycle before it did: the loop comes to a telemetry read only by the
\* sleep, a cycle that ended at a gate goes to the sleep too, and no two
\* reads follow each other without a sleep between them
C35_SleepBetweenReads ==
  /\ [][NextReadReached => IntervalSleep]_vars
  /\ [][pc = "read" /\ pc' # "read" => pc' \in {"gates", "exited"}]_vars
  /\ [][pc = "gates" => pc' \in {"gates", "sleep", "plan", "exited"}]_vars
\* a cycle that read the car and ended at a gate, no price fetched, has
\* slept and the loop is at its next read
C35_Witness ==
  /\ pc = "read"
  /\ cardata # NoCardata
  /\ prices = <<>>

=============================================================================
